---- MODULE Spec2Model ----
(***************************************************************************)
(* Model of the natural-language task manager (imramugh/nlp.tasks):        *)
(* the websocket command loop of main.py, the rule-based classifier and    *)
(* the operation executor of nlp_processor.py, and the generation/import   *)
(* sub-flow of chat_processor.py, over the tables of models.py.            *)
(*                                                                         *)
(* A text is a sequence of word tokens; prefix, substring, equality and    *)
(* split are computed on tokens.  JSON values carry their type, so that    *)
(* isinstance and truthiness are decided as Python decides them.           *)
(***************************************************************************)
EXTENDS Integers, Sequences, FiniteSets, TLC

\* ------------------------------------------------------------- bounds
\* Most commands the connection receives in a run of the model.
MaxCommands == 3
\* Most tasks in one generated batch.
MaxBatch == 3

\* The websocket connections of the concurrent server and the commands
\* they send together.
MaxConnections == 2
MaxIssued == 4

\* ------------------------------------------------------------- JSON values
\* One shape for every value: its type, and the integer, string or list of
\* integers it carries.
JInt(n) == [ty |-> "int", n |-> n, s |-> "", list |-> <<>>]
JStr(s) == [ty |-> "str", n |-> 0, s |-> s, list |-> <<>>]
JBool(b) == [ty |-> "bool", n |-> IF b THEN 1 ELSE 0, s |-> "", list |-> <<>>]
JNull == [ty |-> "null", n |-> 0, s |-> "", list |-> <<>>]
JList(l) == [ty |-> "list", n |-> 0, s |-> "", list |-> l]

\* Python truthiness of a JSON value (`if value`, `not task_id`).
Truthy(v) ==
    CASE v.ty = "int" -> v.n # 0
      [] v.ty = "str" -> v.s # ""
      [] v.ty = "bool" -> v.n = 1
      [] v.ty = "list" -> v.list # <<>>
      [] OTHER -> FALSE

\* A parameter dict is the sequence of its (key, value) pairs in the order
\* of the JSON text: dict iteration follows insertion order.
Pair(k, v) == [k |-> k, v |-> v]

\* `key in params`
Has(params, key) == \E i \in 1..Len(params) : params[i].k = key

\* `params.get(key)`: the value, None (JNull) when the key is absent.
Get(params, key) ==
    IF Has(params, key)
    THEN params[CHOOSE i \in 1..Len(params) : params[i].k = key].v
    ELSE JNull

\* `params.get(key, default)`
GetOr(params, key, default) == IF Has(params, key) THEN Get(params, key) ELSE default

\* ------------------------------------------------------------- tables
\* NULL of a text column, NULL of an integer or datetime column.
NullStr == "<null>"
NullId == 0

\* A text column takes the JSON string, NULL for null.
AsStr(v) ==
    CASE v.ty = "str" -> v.s
      [] v.ty = "null" -> NullStr
      [] OTHER -> "<nontext>"

\* A datetime produced by _parse_date, as a day number.
JDate(n) == [ty |-> "date", n |-> n, s |-> "", list |-> <<>>]

\* An integer or datetime column takes the JSON integer or the datetime,
\* NULL for null.
AsInt(v) == IF v.ty \in {"int", "date"} THEN v.n ELSE NullId

StatusValues == {"pending", "in_progress", "completed"}
PriorityValues == {"low", "medium", "high"}

\* The columns of Task that the model keeps.
TaskColumns == {"title", "status", "priority", "due_date", "project_id",
                "assigned_to", "created_by"}

Task(title, status, priority, due_date, project_id, created_by) ==
    [title |-> title, status |-> status, priority |-> priority,
     due_date |-> due_date, project_id |-> project_id,
     assigned_to |-> NullId, created_by |-> created_by]

Project(name) == [name |-> name]

User(username, email) == [username |-> username, email |-> email]

EmptyTable == [i \in {} |-> 0]

MaxOf(S) == CHOOSE m \in S : \A x \in S : x <= m

MinOf(S) == CHOOSE m \in S : \A x \in S : m <= x

\* INTEGER PRIMARY KEY of SQLite: one more than the largest id in the table.
NextId(table) == IF DOMAIN table = {} THEN 1 ELSE MaxOf(DOMAIN table) + 1

Insert(table, row) == [i \in DOMAIN table \cup {NextId(table)} |->
                          IF i \in DOMAIN table THEN table[i] ELSE row]

Remove(table, ids) == [i \in DOMAIN table \ ids |-> table[i]]

\* Faulty variant of TaskRowOK: the constraints of tasks are not enforced.
TaskRowAny(t) == TRUE

\* NOT NULL and CHECK constraints of tasks, NOT NULL of projects, NOT NULL
\* and UNIQUE of users.  Foreign keys are declared but the engine of
\* async_db.py never enables them, so SQLite does not enforce them.
TaskRowOK(t) ==
    /\ t.title # NullStr
    /\ t.status \in StatusValues
    /\ t.priority \in PriorityValues
    /\ t.created_by # NullId

ConstraintsOK(w) ==
    /\ \A i \in DOMAIN w.tasks : TaskRowOK(w.tasks[i])
    /\ \A i \in DOMAIN w.projects : w.projects[i].name # NullStr
    /\ \A i \in DOMAIN w.users :
          /\ w.users[i].username # NullStr
          /\ w.users[i].email # NullStr
    /\ \A i, j \in DOMAIN w.users :
          i # j => /\ w.users[i].username # w.users[j].username
                   /\ w.users[i].email # w.users[j].email

\* ------------------------------------------------------------- texts
\* str.lower() on the words of the model.
LowerWord(word) ==
    CASE word = "Alpha" -> "alpha"
      [] word = "'Alpha'" -> "'alpha'"
      [] word = "Show" -> "show"
      [] word = "Import" -> "import"
      [] OTHER -> word


\* query.lower()
Lower(q) == [i \in 1..Len(q) |-> LowerWord(q[i])]

\* str.strip(): blank tokens at both ends are dropped.
RECURSIVE Strip(_)
Strip(q) ==
    IF q = <<>> THEN q
    ELSE IF Head(q) = " " THEN Strip(Tail(q))
    ELSE IF q[Len(q)] = " " THEN Strip(SubSeq(q, 1, Len(q) - 1))
    ELSE q

\* str.split(): the words between blanks.
RECURSIVE Words(_)
Words(q) ==
    IF q = <<>> THEN <<>>
    ELSE IF Head(q) = " " THEN Words(Tail(q))
    ELSE <<Head(q)>> \o Words(Tail(q))

\* The string a run of words stands for.
RECURSIVE Join(_)
Join(q) ==
    IF q = <<>> THEN ""
    ELSE IF Len(q) = 1 THEN q[1]
    ELSE q[1] \o " " \o Join(Tail(q))

\* str.startswith(p)
StartsWith(q, p) == Len(q) >= Len(p) /\ SubSeq(q, 1, Len(p)) = p

Occurrences(q, p) == {i \in 1..(Len(q) - Len(p) + 1) : SubSeq(q, i, i + Len(p) - 1) = p}

\* `p in q`
Contains(q, p) == Occurrences(q, p) # {}

FirstAt(q, p) == MinOf(Occurrences(q, p))

\* What stands before the first p of q, all of q when it holds no p.
Before(q, p) == IF Contains(q, p) THEN SubSeq(q, 1, FirstAt(q, p) - 1) ELSE q

\* What stands after the first p of q.
After(q, p) == SubSeq(q, FirstAt(q, p) + Len(p), Len(q))

\* q.split(p)[1] for a q that contains p: what lies between the first p
\* and the next one (or the end).
SplitSecond(q, p) == Before(After(q, p), p)

\* str.isdigit() and int() on the words of the model.
IsDigit(word) == word \in {"0", "1", "2", "3", "9"}

IntOf(word) ==
    CASE word = "0" -> 0
      [] word = "1" -> 1
      [] word = "2" -> 2
      [] word = "3" -> 3
      [] word = "9" -> 9

ParseWords(w) ==
    IF Len(w) = 1 /\ IsDigit(w[1])
    THEN [exc |-> "", n |-> IntOf(w[1])]
    ELSE [exc |-> "ValueError", n |-> 0]

\* int(text.strip()): ValueError unless the text is one number.
ParseInt(q) == ParseWords(Words(q))

\* int(text.split()[0]): IndexError when the text has no word, ValueError
\* when the first word is no number.
FirstInt(w) ==
    IF w = <<>> THEN [exc |-> "IndexError", n |-> 0]
    ELSE IF ~IsDigit(w[1]) THEN [exc |-> "ValueError", n |-> 0]
    ELSE [exc |-> "", n |-> IntOf(w[1])]

\* str.strip("'\"") on the words of the model.
StripQuotes(word) ==
    CASE word = "'alpha'" -> "alpha"
      [] word = "'Alpha'" -> "Alpha"
      [] OTHER -> word


\* ------------------------------------------------------------- session
\* An AsyncSession: db is what the database holds committed, w is the
\* session's view with its own pending changes, bad is set once a flush
\* has failed (the transaction is rolled back and the session refuses
\* further work until rollback() is called).
NewSession(db) == [db |-> db, w |-> db, bad |-> FALSE]

Ok(S) == [exc |-> "", msg |-> "", S |-> S]
Raise(exc, msg, S) == [exc |-> exc, msg |-> msg, S |-> S]

\* session.flush(): the pending changes reach the database unless a
\* constraint refuses them.
flush(S) ==
    IF S.bad
    THEN Raise("PendingRollbackError", "transaction has been rolled back", S)
    ELSE IF ConstraintsOK(S.w)
         THEN Ok(S)
         ELSE Raise("IntegrityError", "constraint failed",
                    [S EXCEPT !.w = S.db, !.bad = TRUE])

CommitFlushed(f) == IF f.exc # "" THEN f ELSE Ok([f.S EXCEPT !.db = f.S.w])

\* session.commit(): flush, then make the session's view the committed one.
commit(S) == CommitFlushed(flush(S))

\* session.rollback()
rollback(S) == [db |-> S.db, w |-> S.db, bad |-> FALSE]

\* result.scalar_one_or_none() over the rows matching a filter.
ScalarOneOrNone(ids) ==
    IF Cardinality(ids) > 1
    THEN [exc |-> "MultipleResultsFound", id |-> NullId]
    ELSE IF ids = {} THEN [exc |-> "", id |-> NullId]
         ELSE [exc |-> "", id |-> CHOOSE i \in ids : TRUE]

\* ------------------------------------------------------------- executor
\* What an executor entry point hands back: the exception it raised ("" for
\* none) with its message, the session afterwards, and the returned dict.
NoData == [tag |-> "null", n |-> 0, tasks |-> <<>>, tables |-> {}]
Data(tag, n) == [tag |-> tag, n |-> n, tasks |-> <<>>, tables |-> {}]
Return(S, data) == [exc |-> "", msg |-> "", S |-> S, data |-> data]
Throw(exc, msg, S) == [exc |-> exc, msg |-> msg, S |-> S, data |-> NoData]

\* `await session.flush()` followed by the return of an entry point, inside
\* its `except Exception: raise ValueError(prefix + str(e))`.
Flushed(f, prefix, data) ==
    IF f.exc # "" THEN Throw("ValueError", prefix \o f.msg, f.S)
    ELSE Return(f.S, data)

\* dateparser.parse on the phrases of the model: a day number, 0 when the
\* phrase resolves to nothing.  Today is day 1.
DateParserParse(phrase) ==
    CASE phrase = "tomorrow" -> 2
      [] phrase = "2030-01-01" -> 3
      [] OTHER -> 0

\* NLPProcessor._parse_date: None for a falsy argument, ValueError when the
\* phrase cannot be resolved.
parse_date(v) ==
    IF ~Truthy(v) THEN [exc |-> "", msg |-> "", v |-> JNull]
    ELSE IF v.ty = "str" /\ DateParserParse(v.s) # 0
         THEN [exc |-> "", msg |-> "", v |-> JDate(DateParserParse(v.s))]
         ELSE [exc |-> "ValueError",
               msg |-> "Error parsing date: Could not parse date", v |-> JNull]

\* Faulty variant of ProjectsNamed: the lookup by name finds
\* no project.
ProjectsNamedNever(w, name) == {}

\* The projects `Project.name == name` selects.
ProjectsNamed(w, name) == {p \in DOMAIN w.projects : w.projects[p].name = name}

\* Task(...) of _create_task with its defaults.
TaskFromParams(params, project_id) ==
    Task(AsStr(Get(params, "title")),
         AsStr(GetOr(params, "status", JStr("pending"))),
         AsStr(GetOr(params, "priority", JStr("medium"))),
         AsInt(Get(params, "due_date")),
         project_id,
         AsInt(GetOr(params, "created_by", JInt(1))))

\* The tail of _create_task: build the Task, add it, flush.
CreateTaskRow(S, params, project_id) ==
    IF ~Has(params, "title")
    THEN Throw("ValueError", "Missing required parameter: 'title'", S)
    ELSE Flushed(flush([S EXCEPT !.w.tasks =
                           Insert(S.w.tasks, TaskFromParams(params, project_id))]),
                 "Error creating task: ", Data("task", NextId(S.w.tasks)))

\* _create_task once the new project has been flushed.
CreateTaskInNew(f, params, project_id) ==
    IF f.exc # "" THEN Throw("ValueError", "Error creating task: " \o f.msg, f.S)
    ELSE CreateTaskRow(f.S, params, project_id)

\* _create_task for a project given by name: the project found by name is
\* used, a missing one is created first.
CreateTaskNamed(S, params, project_name, found) ==
    IF found.exc # ""
    THEN Throw("ValueError", "Error creating task: Multiple rows were found", S)
    ELSE IF found.id # NullId THEN CreateTaskRow(S, params, found.id)
    ELSE IF ~Has(params, "title")
    THEN Throw("ValueError", "Missing required parameter: 'title'", S)
    ELSE CreateTaskInNew(flush([S EXCEPT !.w.projects =
                                   Insert(S.w.projects, Project(project_name))]),
                         params, NextId(S.w.projects))

\* NLPProcessor._create_task
create_task(S, params) ==
    IF Get(params, "project_id").ty = "str"
    THEN CreateTaskNamed(S, params, Get(params, "project_id").s,
                         ScalarOneOrNone(ProjectsNamed(S.w, Get(params, "project_id").s)))
    ELSE CreateTaskRow(S, params, AsInt(Get(params, "project_id")))

\* NLPProcessor._create_project
create_project(S, params) ==
    IF ~Has(params, "name")
    THEN Throw("ValueError", "Missing required parameter: 'name'", S)
    ELSE Flushed(flush([S EXCEPT !.w.projects =
                           Insert(S.w.projects, Project(AsStr(Get(params, "name"))))]),
                 "Error creating project: ", Data("project", NextId(S.w.projects)))

\* NLPProcessor._create_user
create_user(S, params) ==
    IF ~Has(params, "username")
    THEN Throw("ValueError", "Missing required parameter: 'username'", S)
    ELSE IF ~Has(params, "email")
    THEN Throw("ValueError", "Missing required parameter: 'email'", S)
    ELSE Flushed(flush([S EXCEPT !.w.users =
                           Insert(S.w.users, User(AsStr(Get(params, "username")),
                                                  AsStr(Get(params, "email"))))]),
                 "Error creating user: ", Data("user", NextId(S.w.users)))

\* Faulty variant of SetColumn: setting the status also sets the priority.
SetColumnAndPriority(t, field, v) ==
    CASE field = "title" -> [t EXCEPT !.title = AsStr(v)]
      [] field = "status" -> [t EXCEPT !.status = AsStr(v), !.priority = "high"]
      [] field = "priority" -> [t EXCEPT !.priority = AsStr(v)]
      [] field = "due_date" -> [t EXCEPT !.due_date = AsInt(v)]
      [] OTHER -> t

\* setattr(task, field, value) on a column of Task.
SetColumn(t, field, v) ==
    CASE field = "title" -> [t EXCEPT !.title = AsStr(v)]
      [] field = "status" -> [t EXCEPT !.status = AsStr(v)]
      [] field = "priority" -> [t EXCEPT !.priority = AsStr(v)]
      [] field = "due_date" -> [t EXCEPT !.due_date = AsInt(v)]
      [] field = "project_id" -> [t EXCEPT !.project_id = AsInt(v)]
      [] field = "assigned_to" -> [t EXCEPT !.assigned_to = AsInt(v)]
      [] field = "created_by" -> [t EXCEPT !.created_by = AsInt(v)]
      [] OTHER -> t

\* The field loop of _update_task and _update_tasks from pair i on: only
\* attributes of Task are set, due_date goes through _parse_date, and a
\* date that does not parse ends the loop with the earlier fields assigned.
RECURSIVE SetFields(_, _, _, _)
RECURSIVE SetParsed(_, _, _, _, _)
SetFields(t, params, i, idkey) ==
    IF i > Len(params) THEN [exc |-> "", msg |-> "", t |-> t]
    ELSE IF params[i].k = idkey \/ params[i].k \notin TaskColumns
    THEN SetFields(t, params, i + 1, idkey)
    ELSE IF params[i].k = "due_date" /\ Truthy(params[i].v)
    THEN SetParsed(t, params, i, idkey, parse_date(params[i].v))
    ELSE SetFields(SetColumn(t, params[i].k, params[i].v), params, i + 1, idkey)

\* The due_date step of the field loop once _parse_date has answered.
SetParsed(t, params, i, idkey, d) ==
    IF d.exc # "" THEN [exc |-> d.exc, msg |-> d.msg, t |-> t]
    ELSE SetFields(SetColumn(t, "due_date", d.v), params, i + 1, idkey)

\* _update_task after the field loop.
UpdateRow(S, id, r) ==
    IF r.exc # ""
    THEN Throw("ValueError", "Error updating task: " \o r.msg,
               [S EXCEPT !.w.tasks[id] = r.t])
    ELSE Flushed(flush([S EXCEPT !.w.tasks[id] = r.t]),
                 "Error updating task: ", Data("task", id))

\* NLPProcessor._update_task
update_task(S, params) ==
    IF ~Truthy(Get(params, "task_id"))
    THEN Throw("ValueError",
               "Error updating task: Task ID is required for update operation", S)
    ELSE IF AsInt(Get(params, "task_id")) \notin DOMAIN S.w.tasks
    THEN Throw("ValueError", "Error updating task: Task with ID "
                             \o ToString(AsInt(Get(params, "task_id"))) \o " not found", S)
    ELSE UpdateRow(S, AsInt(Get(params, "task_id")),
                   SetFields(S.w.tasks[AsInt(Get(params, "task_id"))], params, 1, "task_id"))

\* The task loop of _update_tasks over the found tasks in id order: a date
\* that does not parse stops the loop at its task.
RECURSIVE UpdateRows(_, _, _)
RECURSIVE UpdateRowsSet(_, _, _, _)
UpdateRows(w, found, params) ==
    IF found = {} THEN [exc |-> "", msg |-> "", w |-> w]
    ELSE UpdateRowsSet(w, found, params,
                       SetFields(w.tasks[MinOf(found)], params, 1, "task_ids"))

\* One round of the task loop once the fields of its task are set.
UpdateRowsSet(w, found, params, r) ==
    IF r.exc # ""
    THEN [exc |-> r.exc, msg |-> r.msg, w |-> [w EXCEPT !.tasks[MinOf(found)] = r.t]]
    ELSE UpdateRows([w EXCEPT !.tasks[MinOf(found)] = r.t], found \ {MinOf(found)}, params)

\* _update_tasks after the task loop.
UpdatedRows(S, r, count) ==
    IF r.exc # ""
    THEN Throw("ValueError", "Error updating tasks: " \o r.msg, [S EXCEPT !.w = r.w])
    ELSE Flushed(flush([S EXCEPT !.w = r.w]), "Error updating tasks: ",
                 Data("updated_tasks", count))

\* The tasks `Task.task_id.in_(task_ids)` selects.
TasksIn(w, task_ids) == {task_ids[k] : k \in 1..Len(task_ids)} \cap DOMAIN w.tasks

\* NLPProcessor._update_tasks
update_tasks(S, params) ==
    IF Get(params, "task_ids").list = <<>>
    THEN Throw("ValueError",
               "Error updating tasks: Task IDs are required for bulk update operation", S)
    ELSE IF TasksIn(S.w, Get(params, "task_ids").list) = {}
    THEN Throw("ValueError", "Error updating tasks: No tasks found with IDs", S)
    ELSE UpdatedRows(S, UpdateRows(S.w, TasksIn(S.w, Get(params, "task_ids").list), params),
                     Cardinality(TasksIn(S.w, Get(params, "task_ids").list)))

\* Faulty variant of _delete_task: the found-or-not test of
\* the single-task path is left out.
delete_task_unchecked(S, params) ==
    Flushed(flush([S EXCEPT !.w.tasks =
                      Remove(S.w.tasks, {AsInt(Get(params, "task_id"))})]),
            "Error deleting task(s): ",
            Data("deleted_task_id", AsInt(Get(params, "task_id"))))

\* NLPProcessor._delete_task
delete_task(S, params) ==
    IF Truthy(GetOr(params, "delete_all", JBool(FALSE)))
    THEN Flushed(flush([S EXCEPT !.w.tasks = EmptyTable]), "Error deleting task(s): ",
                 Data("deleted_tasks", Cardinality(DOMAIN S.w.tasks)))
    ELSE IF ~Truthy(Get(params, "task_id"))
    THEN Throw("ValueError",
               "Error deleting task(s): Task ID is required for delete operation", S)
    ELSE IF AsInt(Get(params, "task_id")) \notin DOMAIN S.w.tasks
    THEN Throw("ValueError", "Error deleting task(s): Task with ID "
                             \o ToString(AsInt(Get(params, "task_id"))) \o " not found", S)
    ELSE Flushed(flush([S EXCEPT !.w.tasks =
                           Remove(S.w.tasks, {AsInt(Get(params, "task_id"))})]),
                 "Error deleting task(s): ",
                 Data("deleted_task_id", AsInt(Get(params, "task_id"))))

\* Faulty variant of DeleteProjects: the rows stay until the final flush,
\* so a later lookup finds them again.
DeleteProjectsLater(w, ids) == w

\* session.delete(project) for each project of ids: the rows go, and the
\* Project.tasks relationship sets project_id of their tasks to NULL.
DeleteProjects(w, ids) ==
    [w EXCEPT !.projects = Remove(w.projects, ids),
              !.tasks = [i \in DOMAIN w.tasks |->
                           IF w.tasks[i].project_id \in ids
                           THEN [w.tasks[i] EXCEPT !.project_id = NullId]
                           ELSE w.tasks[i]]]

\* The loop of _delete_project over the listed ids from position i on,
\* counting the ids that matched a project when they were looked up.
RECURSIVE DeleteListed(_, _, _, _)
DeleteListed(w, project_ids, i, count) ==
    IF i > Len(project_ids) THEN [w |-> w, count |-> count]
    ELSE IF project_ids[i] \in DOMAIN w.projects
         THEN DeleteListed(DeleteProjects(w, {project_ids[i]}), project_ids,
                           i + 1, count + 1)
         ELSE DeleteListed(w, project_ids, i + 1, count)

\* _delete_project after the loop.
DeletedListed(S, d) ==
    Flushed(flush([S EXCEPT !.w = d.w]), "Error deleting project(s): ",
            Data("deleted_projects", d.count))

\* NLPProcessor._delete_project
delete_project(S, params) ==
    IF Truthy(GetOr(params, "delete_all", JBool(FALSE)))
    THEN Flushed(flush([S EXCEPT !.w = DeleteProjects(S.w, DOMAIN S.w.projects)]),
                 "Error deleting project(s): ",
                 Data("deleted_projects", Cardinality(DOMAIN S.w.projects)))
    ELSE IF Get(params, "project_ids").list = <<>>
    THEN Throw("ValueError",
               "Error deleting project(s): Project ID(s) required for delete operation", S)
    ELSE DeletedListed(S, DeleteListed(S.w, Get(params, "project_ids").list, 1, 0))

\* The rows _search_tasks selects: the status and priority filters, and
\* the search term compared with the title ignoring case.
TaskHit(t, params) ==
    /\ Has(params, "status") => t.status = AsStr(Get(params, "status"))
    /\ Has(params, "priority") => t.priority = AsStr(Get(params, "priority"))
    /\ Has(params, "search_term") =>
          LowerWord(t.title) = LowerWord(AsStr(Get(params, "search_term")))

\* NLPProcessor._search_tasks
search_tasks(S, params) ==
    Return(S, Data("tasks",
                   Cardinality({i \in DOMAIN S.w.tasks : TaskHit(S.w.tasks[i], params)})))

\* NLPProcessor._search_projects
search_projects(S, params) ==
    Return(S, Data("projects", Cardinality(DOMAIN S.w.projects)))

\* NLPProcessor._search_users
search_users(S, params) ==
    Return(S, Data("users", Cardinality(DOMAIN S.w.users)))

\* The tables NLPProcessor._list_tables writes out.
ListedTables == {"tasks", "projects", "users", "tags", "task_tags"}

\* The column descriptors of one table in their order: a descriptor is
\* the table, the position, the name, the type and the nullability.
Columns(table, cols) ==
    {<<table, i, cols[i][1], cols[i][2], cols[i][3]>> : i \in 1..Len(cols)}

\* The list that _list_tables is written to return (lines 550-599).
ListedSchema ==
    Columns("tasks", <<
        <<"task_id", "INTEGER", FALSE>>, <<"title", "VARCHAR", FALSE>>,
        <<"description", "TEXT", TRUE>>, <<"status", "VARCHAR", FALSE>>,
        <<"priority", "VARCHAR", FALSE>>, <<"due_date", "DATETIME", TRUE>>,
        <<"created_at", "DATETIME", FALSE>>, <<"project_id", "INTEGER", TRUE>>,
        <<"assigned_to", "INTEGER", TRUE>>, <<"created_by", "INTEGER", FALSE>> >>)
    \cup Columns("projects", <<
        <<"project_id", "INTEGER", FALSE>>, <<"name", "VARCHAR", FALSE>>,
        <<"description", "TEXT", TRUE>>, <<"created_at", "DATETIME", FALSE>> >>)
    \cup Columns("users", <<
        <<"user_id", "INTEGER", FALSE>>, <<"username", "VARCHAR", FALSE>>,
        <<"email", "VARCHAR", FALSE>>, <<"created_at", "DATETIME", FALSE>> >>)
    \cup Columns("tags", <<
        <<"tag_id", "INTEGER", FALSE>>, <<"name", "VARCHAR", FALSE>>,
        <<"created_by", "INTEGER", FALSE>> >>)
    \cup Columns("task_tags", <<
        <<"task_id", "INTEGER", FALSE>>, <<"tag_id", "INTEGER", FALSE>> >>)

\* The schema that Base.metadata.create_all persists at startup: the tables
\* and columns of models.py, String as VARCHAR, a column nullable unless it
\* is a primary key or declared nullable=False.  No command alters it.
PersistedSchema ==
    Columns("tasks", <<
        <<"task_id", "INTEGER", FALSE>>, <<"title", "VARCHAR", FALSE>>,
        <<"description", "VARCHAR", TRUE>>, <<"status", "VARCHAR", FALSE>>,
        <<"priority", "VARCHAR", FALSE>>, <<"due_date", "DATETIME", TRUE>>,
        <<"created_at", "DATETIME", FALSE>>, <<"project_id", "INTEGER", TRUE>>,
        <<"assigned_to", "INTEGER", TRUE>>, <<"created_by", "INTEGER", FALSE>> >>)
    \cup Columns("projects", <<
        <<"project_id", "INTEGER", FALSE>>, <<"name", "VARCHAR", FALSE>>,
        <<"description", "VARCHAR", TRUE>>, <<"created_at", "DATETIME", FALSE>> >>)
    \cup Columns("users", <<
        <<"user_id", "INTEGER", FALSE>>, <<"username", "VARCHAR", FALSE>>,
        <<"email", "VARCHAR", FALSE>>, <<"created_at", "DATETIME", FALSE>> >>)
    \cup Columns("tags", <<
        <<"tag_id", "INTEGER", FALSE>>, <<"name", "VARCHAR", FALSE>>,
        <<"created_by", "INTEGER", FALSE>> >>)
    \cup Columns("task_tags", <<
        <<"task_id", "INTEGER", TRUE>>, <<"tag_id", "INTEGER", TRUE>> >>)

\* NLPProcessor._list_tables
list_tables(S) ==
    Return(S, [Data("tables", Cardinality(ListedTables)) EXCEPT !.tables = ListedSchema])

\* params["due_date"] = self._parse_date(params["due_date"])
WithDueDate(params, v) ==
    [i \in 1..Len(params) |->
        IF params[i].k = "due_date" THEN Pair("due_date", v) ELSE params[i]]

\* create_task of _execute_operation once the date went through _parse_date.
CreateTaskDated(S, params, d) ==
    IF d.exc # "" THEN Throw(d.exc, d.msg, S)
    ELSE create_task(S, WithDueDate(params, d.v))

\* The dispatch of _execute_operation on the operation name.
Dispatch(S, operation, params) ==
    CASE operation = "search_tasks" -> search_tasks(S, params)
      [] operation = "create_task" ->
           IF Has(params, "due_date")
           THEN CreateTaskDated(S, params, parse_date(Get(params, "due_date")))
           ELSE create_task(S, params)
      [] operation = "update_task" ->
           IF ~Truthy(Get(params, "task_id"))
           THEN Throw("ValueError", "Task ID is required for update operation", S)
           ELSE update_task(S, params)
      [] operation = "delete_task" -> delete_task(S, params)
      [] operation = "create_project" -> create_project(S, params)
      [] operation = "search_projects" -> search_projects(S, params)
      [] operation = "list_tables" -> list_tables(S)
      [] operation = "create_user" -> create_user(S, params)
      [] operation = "search_users" -> search_users(S, params)
      [] OTHER -> Throw("ValueError", "Unknown operation: " \o operation, S)

\* NLPProcessor._execute_operation
execute_operation(S, structured_response) ==
    Dispatch(S, structured_response.operation, structured_response.parameters)

\* ------------------------------------------------------------- results
\* The dict every command ends with.
Result(success, response, data) ==
    [success |-> success, response |-> response, data |-> data]

Failure(response) == Result(FALSE, response, NoData)

\* ------------------------------------------------------------- LLM
\* What a completion call gives: an exception, or the text of the reply.
\* The text is kept by its format (plain text, text that opens with a brace
\* but is no JSON, or a JSON object) and, for an object, its top-level keys
\* and their values.
NoContent == [fmt |-> "text", keys |-> {}, tasks |-> <<>>, operation |-> "",
              parameters |-> <<>>]

JsonObject(keys, tasks, operation, parameters) ==
    [fmt |-> "json", keys |-> keys, tasks |-> tasks, operation |-> operation,
     parameters |-> parameters]

Replied(content) == [exc |-> "", content |-> content]
CallFailed(exc) == [exc |-> exc, content |-> NoContent]

\* response_content.startswith("{")
StartsWithBrace(content) == content.fmt \in {"badjson", "json"}

\* json.loads on the text of a reply.
JsonLoads(content) ==
    IF content.fmt = "json"
    THEN [exc |-> "", keys |-> content.keys, tasks |-> content.tasks,
          operation |-> content.operation, parameters |-> content.parameters]
    ELSE [exc |-> "JSONDecodeError", keys |-> {}, tasks |-> <<>>,
          operation |-> "", parameters |-> <<>>]

\* ------------------------------------------------------------- ChatProcessor
\* One entry of conversation_history.
UserMessage(query) == [role |-> "user", text |-> query, content |-> NoContent]
AssistantMessage(content) == [role |-> "assistant", text |-> <<>>, content |-> content]

\* The priority check of generate_tasks on one parsed task.
CoercePriority(task) ==
    [i \in 1..Len(task) |->
        IF task[i].k = "priority" /\ AsStr(task[i].v) \notin PriorityValues
        THEN Pair("priority", JStr("medium"))
        ELSE task[i]]

\* The parsed tasks after the validation loop of generate_tasks.
Coerced(tasks) == [i \in 1..Len(tasks) |-> CoercePriority(tasks[i])]

\* What generate_tasks appends to the history for an accepted reply: the
\* text of the reply as it came, not the parsed and corrected tasks.
PendingContent(response_content, tasks) == response_content

\* What generate_tasks hands back: its result and the history afterwards.
Generated(result, history) == [result |-> result, history |-> history]

\* generate_tasks from json.loads on (lines 82-118); history holds the
\* user message already.
ValidateTasks(history, response_content, tasks_data) ==
    IF tasks_data.exc # ""
    THEN Generated(Failure("Failed to parse ChatGPT response"), history)
    ELSE IF "tasks" \notin tasks_data.keys
    THEN Generated(Failure("Invalid response structure: Invalid response structure: missing tasks array"),
                   history)
    ELSE IF \E i \in 1..Len(tasks_data.tasks) :
               \E k \in {"title", "description", "priority"} :
                   ~Has(tasks_data.tasks[i], k)
    THEN Generated(Failure("Invalid response structure: Invalid task structure: missing required fields"),
                   history)
    ELSE Generated(Result(TRUE, "Generated " \o ToString(Len(tasks_data.tasks))
                                \o " tasks successfully.",
                          [tag |-> "tasks", n |-> Len(tasks_data.tasks),
                           tasks |-> Coerced(tasks_data.tasks), tables |-> {}]),
                   Append(history,
                          AssistantMessage(PendingContent(response_content,
                                                          Coerced(tasks_data.tasks)))))

\* generate_tasks after the user message was appended (lines 59-126).
GenerateFrom(history, llm) ==
    IF llm.exc # ""
    THEN Generated(Failure("Error generating tasks: " \o llm.exc), history)
    ELSE IF ~StartsWithBrace(llm.content)
    THEN Generated(Failure("Invalid response structure: Response is not a valid JSON object"),
                   history)
    ELSE ValidateTasks(history, llm.content, JsonLoads(llm.content))

\* ChatProcessor.generate_tasks
generate_tasks(history, query, llm) ==
    GenerateFrom(Append(history, UserMessage(query)), llm)

\* The task loop of import_tasks from position i on: session.add for each.
RECURSIVE AddTasks(_, _, _, _)
AddTasks(w, tasks, i, project_id) ==
    IF i > Len(tasks) THEN w
    ELSE AddTasks([w EXCEPT !.tasks =
                      Insert(w.tasks,
                             Task(AsStr(Get(tasks[i], "title")),
                                  "pending",
                                  AsStr(GetOr(tasks[i], "priority", JStr("medium"))),
                                  NullId, project_id, 1))],
                  tasks, i + 1, project_id)

\* What import_tasks hands back: its result and the session afterwards.
Imported(result, S) == [result |-> result, S |-> S]

\* import_tasks after its session.commit() (lines 162-203).
ImportCommitted(c, count) ==
    IF c.exc # ""
    THEN Imported(Failure("Error importing tasks: " \o c.msg), rollback(c.S))
    ELSE Imported(Result(TRUE, "Successfully imported " \o ToString(count) \o " tasks",
                         Data("imported", count)),
                  c.S)

\* The tail of import_tasks: add the tasks, commit; any exception rolls the
\* session back and becomes a failed result.
ImportInto(S, tasks_data, project_id) ==
    IF "tasks" \notin tasks_data.keys
       \/ \E i \in 1..Len(tasks_data.tasks) : ~Has(tasks_data.tasks[i], "title")
    THEN Imported(Failure("Error importing tasks: KeyError"), rollback(S))
    ELSE ImportCommitted(commit([S EXCEPT !.w = AddTasks(S.w, tasks_data.tasks, 1,
                                                         project_id)]),
                         Len(tasks_data.tasks))

\* import_tasks once the new project has been flushed.
ImportIntoNew(f, tasks_data, project_id) ==
    IF f.exc # ""
    THEN Imported(Failure("Error importing tasks: " \o f.msg), rollback(f.S))
    ELSE ImportInto(f.S, tasks_data, project_id)

\* import_tasks for a named project: the project found by name is used, a
\* missing one is created first.
ImportNamed(S, tasks_data, project_name, found) ==
    IF found.exc # ""
    THEN Imported(Failure("Error importing tasks: Multiple rows were found"), rollback(S))
    ELSE IF found.id # NullId THEN ImportInto(S, tasks_data, found.id)
    ELSE ImportIntoNew(flush([S EXCEPT !.w.projects =
                                 Insert(S.w.projects, Project(project_name))]),
                       tasks_data, NextId(S.w.projects))

\* ChatProcessor.import_tasks; project_name is "" for None.
import_tasks(S, tasks_data, project_name) ==
    IF project_name # ""
    THEN ImportNamed(S, tasks_data, project_name,
                     ScalarOneOrNone(ProjectsNamed(S.w, project_name)))
    ELSE ImportInto(S, tasks_data, NullId)

\* Faulty variant of clear_conversation: the history is kept.
clear_conversation_kept(history) == history

\* ChatProcessor.clear_conversation
clear_conversation(history) == <<>>

\* ------------------------------------------------------------- classifier
BulkPrefixes == {<<"for", "tasks">>, <<"set", "all", "tasks">>, <<"assign", "all", "tasks">>}

SchemaPhrases == {<<"show", "tables">>, <<"show", "all", "tables">>, <<"show", "schema">>}

DeleteAllProjectsPhrases == {<<"delete", "all", "projects">>, <<"delete", "all", "project">>}

\* The texts that start with the characters "delete project".
DeleteProjectPrefixes == {<<"delete", "project">>, <<"delete", "projects">>}

GenerationPatterns ==
    {<<"how", "to">>, <<"what", "are", "the", "steps">>,
     <<"what", "do", "i", "need", "to", "do">>, <<"what", "are", "the">>,
     <<"list", "the", "tasks">>, <<"create", "a", "plan">>, <<"break", "down">>,
     <<"what", "are">>, <<"show", "me", "how", "to">>, <<"guide", "me", "through">>,
     <<"walk", "me", "through">>}

import_patterns ==
    {<<"add", "these", "tasks">>, <<"import", "those", "tasks">>,
     <<"save", "these", "tasks">>, <<"create", "these", "tasks">>,
     <<"add", "all", "of", "these">>, <<"import", "all", "tasks">>,
     <<"save", "all", "tasks">>, <<"add", "these", "to", "tasks">>,
     <<"add", "all", "to", "tasks">>, <<"import", "all">>, <<"save", "all">>,
     <<"add", "all">>}

\* Faulty variant of Family: the import test stands before the
\* generation test.
FamilyImportFirst(query_lower) ==
    IF \E p \in BulkPrefixes : StartsWith(query_lower, p) THEN "bulk_update"
    ELSE IF query_lower \in SchemaPhrases THEN "schema"
    ELSE IF query_lower \in DeleteAllProjectsPhrases THEN "delete_all_projects"
    ELSE IF \E p \in DeleteProjectPrefixes : StartsWith(query_lower, p)
         THEN "delete_projects"
    ELSE IF query_lower = <<"delete", "all", "tasks">> THEN "delete_all_tasks"
    ELSE IF \E p \in import_patterns : Contains(query_lower, p) THEN "import"
    ELSE IF \E p \in GenerationPatterns : Contains(query_lower, p) THEN "generation"
    ELSE "fallback"

\* The chain of tests of process_query on the lower-cased, stripped text:
\* the family of the first test that passes.
Family(query_lower) ==
    IF \E p \in BulkPrefixes : StartsWith(query_lower, p) THEN "bulk_update"
    ELSE IF query_lower \in SchemaPhrases THEN "schema"
    ELSE IF query_lower \in DeleteAllProjectsPhrases THEN "delete_all_projects"
    ELSE IF \E p \in DeleteProjectPrefixes : StartsWith(query_lower, p)
         THEN "delete_projects"
    ELSE IF query_lower = <<"delete", "all", "tasks">> THEN "delete_all_tasks"
    ELSE IF \E p \in GenerationPatterns : Contains(query_lower, p) THEN "generation"
    ELSE IF (\E p \in import_patterns : Contains(query_lower, p))
            \/ query_lower \in import_patterns THEN "import"
    ELSE "fallback"

\* The family a received text is handled as: invalid for the empty text,
\* which process_query rejects before any test.
FamilyOf(query) == IF query = <<>> THEN "invalid" ELSE Family(Strip(Lower(query)))

\* ------------------------------------------------------------- bulk update
\* The rows of `select(Task.task_id)` in id order.
RECURSIVE Ascending(_)
Ascending(ids) ==
    IF ids = {} THEN <<>>
    ELSE <<MinOf(ids)>> \o Ascending(ids \ {MinOf(ids)})

\* The outcome of the id selection: the ids selected, or the exception
\* int() or an index raised.
Selected(ids) == [exc |-> "", ids |-> Ascending(ids)]
SelectionError(exc) == [exc |-> exc, ids |-> <<>>]

\* "greater than" / "less than": the tasks on the named side of bound.
SelectBeyond(all, bound, side) ==
    IF bound.exc # "" THEN SelectionError(bound.exc)
    ELSE IF side = "greater" THEN Selected({i \in all : i > bound.n})
    ELSE Selected({i \in all : i < bound.n})

\* Faulty variant of SelectWithin: the upper bound is left out.
SelectWithinBelow(all, min_id, max_id) ==
    IF max_id.exc # "" THEN SelectionError(max_id.exc)
    ELSE Selected({i \in all : min_id <= i /\ i < max_id.n})

\* "between": Task.task_id.between(min_id, max_id).
SelectWithin(all, min_id, max_id) ==
    IF max_id.exc # "" THEN SelectionError(max_id.exc)
    ELSE Selected({i \in all : min_id <= i /\ i <= max_id.n})

\* "between" once int(parts[0].strip()) has answered; parts is what
\* follows "between" split at "and".
SelectBetween(all, seg, min_id) ==
    IF min_id.exc # "" THEN SelectionError("ValueError")
    ELSE IF ~Contains(seg, <<"and">>) THEN SelectionError("IndexError")
    ELSE SelectWithin(all, min_id.n, FirstInt(Words(SplitSecond(seg, <<"and">>))))

\* "between" on what follows the word.
SelectFrom(all, seg) == SelectBetween(all, seg, ParseInt(Before(seg, <<"and">>)))

\* The id selection of a bulk update (lines 46-64).
BulkSelection(S, q) ==
    IF StartsWith(q, <<"set", "all", "tasks">>) \/ StartsWith(q, <<"assign", "all", "tasks">>)
    THEN Selected(DOMAIN S.w.tasks)
    ELSE IF Contains(q, <<"greater", "than">>)
    THEN SelectBeyond(DOMAIN S.w.tasks,
                      FirstInt(Words(SplitSecond(q, <<"greater", "than">>))), "greater")
    ELSE IF Contains(q, <<"less", "than">>)
    THEN SelectBeyond(DOMAIN S.w.tasks,
                      FirstInt(Words(SplitSecond(q, <<"less", "than">>))), "less")
    ELSE IF Contains(q, <<"between">>)
    THEN SelectFrom(DOMAIN S.w.tasks, SplitSecond(q, <<"between">>))
    ELSE Selected({})

UsersNamed(w, username) == {u \in DOMAIN w.users : w.users[u].username = username}

\* The outcome of the dimension tests: the one (field, value) pair to set,
\* the response of a failed result, or nothing at all.
SetTo(field, v) == [fail |-> "", params |-> <<Pair(field, v)>>]
Refused(msg) == [fail |-> msg, params |-> <<>>]
NoDimension == [fail |-> "", params |-> <<>>]

\* The text after "to project", else after "set project to".
ProjectPart(q) ==
    IF Contains(q, <<"to", "project">>)
    THEN SplitSecond(q, <<"to", "project">>)
    ELSE SplitSecond(q, <<"set", "project", "to">>)

\* project dimension: int(project_part).
ProjectDimension(part, n) ==
    IF n.exc # "" THEN Refused("Invalid project ID: " \o Join(Words(part)))
    ELSE SetTo("project_id", JInt(n.n))

\* Faulty variant of EnumDimension: the priority is set along with the
\* field.
EnumDimensionWithPriority(field, value, allowed) ==
    IF value \notin allowed THEN Refused("Invalid " \o field \o ": " \o value)
    ELSE [fail |-> "", params |-> <<Pair(field, JStr(value)),
                                    Pair("priority", JStr("high"))>>]

\* status and priority dimensions: the value must be an enumerated one.
EnumDimension(field, value, allowed) ==
    IF value \notin allowed THEN Refused("Invalid " \o field \o ": " \o value)
    ELSE SetTo(field, JStr(value))

\* "assign ... to user <id>": the id must parse and the user must exist.
UserIdDimension(S, part, n) ==
    IF n.exc # "" THEN Refused("Invalid user ID: " \o Join(Words(part)))
    ELSE IF n.n \notin DOMAIN S.w.users
    THEN Refused("User with ID " \o ToString(n.n) \o " not found")
    ELSE SetTo("assigned_to", JInt(n.n))

\* "assign ... to <username>": the user is looked up by name.
UserNameDimension(username, found) ==
    IF found.id = NullId THEN Refused("User '" \o username \o "' not found")
    ELSE SetTo("assigned_to", JInt(found.id))

\* The update dimension of a bulk update (lines 74-130): the first test of
\* the chain that passes decides.
BulkDimension(S, q) ==
    IF Contains(q, <<"set", "project", "to">>) \/ Contains(q, <<"to", "project">>)
    THEN ProjectDimension(ProjectPart(q), ParseInt(ProjectPart(q)))
    ELSE IF Contains(q, <<"set", "status", "to">>)
    THEN EnumDimension("status", Join(Words(SplitSecond(q, <<"set", "status", "to">>))),
                       StatusValues)
    ELSE IF Contains(q, <<"set", "priority", "to">>)
    THEN EnumDimension("priority",
                       Join(Words(SplitSecond(q, <<"set", "priority", "to">>))),
                       PriorityValues)
    ELSE IF Contains(q, <<"assign">>) /\ Contains(q, <<"to", "user">>)
    THEN UserIdDimension(S, SplitSecond(q, <<"to", "user">>),
                         ParseInt(SplitSecond(q, <<"to", "user">>)))
    ELSE IF Contains(q, <<"assign">>) /\ Contains(q, <<"to">>)
    THEN UserNameDimension(Join(Words(SplitSecond(q, <<"to">>))),
                           ScalarOneOrNone(UsersNamed(S.w,
                               Join(Words(SplitSecond(q, <<"to">>))))))
    ELSE NoDimension

\* What a branch of process_query hands back: the exception that leaves
\* the branch ("" for none), its result and the session.
Branch(exc, result, S) == [exc |-> exc, result |-> result, S |-> S]

\* The bulk branch after the call of _update_tasks (lines 149-160).
BulkUpdated(r, count) ==
    IF r.exc # ""
    THEN Branch("", Failure("Error processing bulk update: " \o r.msg), r.S)
    ELSE Branch("", Result(TRUE, "Successfully updated " \o ToString(count) \o " tasks.",
                           r.data), r.S)

\* The bulk branch once the dimension is known (lines 132-154).
BulkDimensioned(S, task_ids, dim) ==
    IF dim.fail # "" THEN Branch("", Failure(dim.fail), S)
    ELSE IF dim.params = <<>>
    THEN Branch("", Failure("No valid update parameters provided"), S)
    ELSE BulkUpdated(update_tasks(S, <<Pair("task_ids", JList(task_ids))>> \o dim.params),
                     Len(task_ids))

\* The bulk branch once the ids are selected (lines 66-71, 155-160):
\* ValueError is answered inside the branch, any other exception leaves it.
BulkSelected(S, q, selection) ==
    IF selection.exc = "ValueError"
    THEN Branch("", Failure("Error processing bulk update: invalid literal for int()"), S)
    ELSE IF selection.exc # "" THEN Branch(selection.exc, Failure(""), S)
    ELSE IF selection.ids = <<>>
    THEN Branch("", Failure("No tasks found matching the specified criteria"), S)
    ELSE BulkDimensioned(S, selection.ids, BulkDimension(S, q))

\* The bulk update branch of process_query (lines 37-160).
bulk_update(S, q) == BulkSelected(S, q, BulkSelection(S, q))

\* ------------------------------------------------------------- process_query
\* The ids of a "delete project ..." command: "delete project" is cut out
\* of the text wherever it stands (str.replace), the rest is split at the
\* commas, and the pieces that are one number are kept.
RECURSIVE CutDeleteProject(_)
CutDeleteProject(q) ==
    IF q = <<>> THEN <<>>
    ELSE IF StartsWith(q, <<"delete", "project">>)
         THEN CutDeleteProject(SubSeq(q, 3, Len(q)))
    ELSE IF StartsWith(q, <<"delete", "projects">>)
         THEN <<"s">> \o CutDeleteProject(SubSeq(q, 3, Len(q)))
    ELSE <<Head(q)>> \o CutDeleteProject(Tail(q))

RECURSIVE CommaPieces(_)
CommaPieces(q) ==
    IF ~Contains(q, <<",">>) THEN <<q>>
    ELSE <<Before(q, <<",">>)>> \o CommaPieces(After(q, <<",">>))

RECURSIVE DigitPieces(_)
DigitPieces(pieces) ==
    IF pieces = <<>> THEN <<>>
    ELSE IF ParseInt(Head(pieces)).exc = ""
         THEN <<ParseInt(Head(pieces)).n>> \o DigitPieces(Tail(pieces))
         ELSE DigitPieces(Tail(pieces))

DeleteProjectIds(q) == DigitPieces(CommaPieces(Strip(CutDeleteProject(q))))

\* The project an import command names ("" for none): what follows the
\* first "to project" of the lower-cased text, without its quotes.
ImportProjectName(query_lower) ==
    IF Contains(query_lower, <<"to", "project">>)
    THEN StripQuotes(Join(Words(SplitSecond(query_lower, <<"to", "project">>))))
    ELSE ""

\* What process_query leaves behind: its result, the session, the history
\* and how often each LLM prompt was sent.
Done(result, S, history, gen_calls, fallback_calls) ==
    [result |-> result, S |-> S, history |-> history,
     gen_calls |-> gen_calls, fallback_calls |-> fallback_calls]

\* The end of a rule branch: the success response around the data the
\* executor returned, the failure response around what it raised.
Answered(r, history, success_response, failure_prefix) ==
    IF r.exc # "" THEN Done(Failure(failure_prefix \o r.msg), r.S, history, 0, 0)
    ELSE Done(Result(TRUE, success_response, r.data), r.S, history, 0, 0)

\* Faulty variant of BulkAnswered: what left the bulk branch
\* unanswered falls through to the fallback prompt.
BulkAnsweredByFallback(b, history) ==
    IF b.exc # "" THEN Done(Failure("Unexpected error: " \o b.exc), b.S, history, 0, 1)
    ELSE Done(b.result, b.S, history, 0, 0)

\* The end of the bulk branch: what left it unanswered reaches the handler
\* of line 467.
BulkAnswered(b, history) ==
    IF b.exc # "" THEN Done(Failure("Unexpected error: " \o b.exc), b.S, history, 0, 0)
    ELSE Done(b.result, b.S, history, 0, 0)

\* The delete-specific-projects branch after _delete_project (lines 205-217).
DeleteAnswered(r, history) ==
    IF r.exc # "" THEN Done(Failure("Error deleting projects: " \o r.msg), r.S, history, 0, 0)
    ELSE Done(Result(TRUE, "Successfully deleted " \o ToString(r.data.n) \o " project(s).",
                     r.data), r.S, history, 0, 0)

\* The delete-specific-projects branch (lines 195-217).
delete_listed(S, history, project_ids) ==
    IF project_ids = <<>>
    THEN Done(Failure("No valid project IDs provided"), S, history, 0, 0)
    ELSE DeleteAnswered(delete_project(S, <<Pair("project_ids", JList(project_ids))>>),
                        history)

\* Faulty variant of GenerationAnswered: a generation that failed goes on
\* to the fallback prompt.
GenerationAnsweredOrFallback(g, S) ==
    IF g.result.success THEN Done(g.result, S, g.history, 1, 0)
    ELSE Done(Failure("Error generating tasks: " \o g.result.response), S, g.history, 1, 1)

\* The generation branch (lines 236-256) after generate_tasks returned.
GenerationAnswered(g, S) ==
    IF g.result.success THEN Done(g.result, S, g.history, 1, 0)
    ELSE Done(Failure("Error generating tasks: " \o g.result.response), S, g.history, 1, 0)

\* Faulty variant of ImportAnswered: a successful import
\* clears the history.
ImportAnsweredAndCleared(r, history) ==
    Done(r.result, r.S, IF r.result.success THEN <<>> ELSE history, 0, 0)

\* The import branch after import_tasks returned.
ImportAnswered(r, history) == Done(r.result, r.S, history, 0, 0)

\* The import branch after json.loads of the last assistant message.
ImportParsed(S, history, tasks_data, project_name) ==
    IF tasks_data.exc # ""
    THEN Done(Failure("No valid tasks found to import. Please generate tasks first."),
              S, history, 0, 0)
    ELSE ImportAnswered(import_tasks(S, tasks_data, project_name), history)

\* Faulty variant of import_branch: the last entry of the
\* history is read without looking at its role.
import_branch_any_role(query_lower, S, history) ==
    IF history # <<>>
    THEN ImportParsed(S, history,
                      [JsonLoads(history[Len(history)].content) EXCEPT !.exc = ""],
                      ImportProjectName(query_lower))
    ELSE Done(Failure("No tasks found to import. Please generate tasks first."),
              S, history, 0, 0)

\* The import branch of process_query (lines 259-297).
import_branch(query_lower, S, history) ==
    IF history # <<>> /\ history[Len(history)].role = "assistant"
    THEN ImportParsed(S, history, JsonLoads(history[Len(history)].content),
                      ImportProjectName(query_lower))
    ELSE Done(Failure("No tasks found to import. Please generate tasks first."),
              S, history, 0, 0)

\* The fallback branch after _execute_operation (lines 442-473).
Executed(r, history) ==
    IF r.exc = "KeyError"
    THEN Done(Failure("Missing required field in response: " \o r.msg), r.S, history, 0, 1)
    ELSE IF r.exc # "" THEN Done(Failure("Unexpected error: " \o r.msg), r.S, history, 0, 1)
    ELSE Done(Result(TRUE, "natural_response", r.data), r.S, history, 0, 1)

\* The validation of the structured response (lines 418-440).
Validated(S, history, structured_response) ==
    IF structured_response.exc # ""
    THEN Done(Failure("Error processing the request: Invalid response format"),
              S, history, 0, 1)
    ELSE IF "operation" \notin structured_response.keys
    THEN Done(Failure("Invalid response structure: missing operation field"),
              S, history, 0, 1)
    ELSE IF "parameters" \notin structured_response.keys
    THEN Done(Failure("Invalid response structure: missing parameters field"),
              S, history, 0, 1)
    ELSE IF "natural_response" \notin structured_response.keys
    THEN Done(Failure("Invalid response structure: missing natural_response field"),
              S, history, 0, 1)
    ELSE Executed(execute_operation(S, structured_response), history)

\* The fallback branch of process_query (lines 299-465) and the handler of
\* line 467 for what escapes it.
fallback_branch(S, history, llm) ==
    IF llm.exc = "APIError"
    THEN Done(Failure("OpenAI API error: " \o llm.exc), S, history, 0, 1)
    ELSE IF llm.exc # ""
    THEN Done(Failure("Unexpected error: " \o llm.exc), S, history, 0, 1)
    ELSE IF ~StartsWithBrace(llm.content)
    THEN Done(Failure("Invalid response format: Response must be a JSON object"),
              S, history, 0, 1)
    ELSE Validated(S, history, JsonLoads(llm.content))

\* process_query from the classification on: the branch of the family.
Classified(family, query, query_lower, S, history, llm) ==
    CASE family = "bulk_update" -> BulkAnswered(bulk_update(S, query_lower), history)
      [] family = "schema" ->
           Answered(list_tables(S), history,
                    "Here are the database tables and their schema:",
                    "Error retrieving schema: ")
      [] family = "delete_all_projects" ->
           Answered(delete_project(S, <<Pair("delete_all", JBool(TRUE))>>), history,
                    "All projects have been deleted successfully.",
                    "Error deleting projects: ")
      [] family = "delete_projects" ->
           delete_listed(S, history, DeleteProjectIds(query_lower))
      [] family = "delete_all_tasks" ->
           Answered(delete_task(S, <<Pair("delete_all", JBool(TRUE))>>), history,
                    "All tasks have been deleted successfully.",
                    "Error deleting tasks: ")
      [] family = "generation" ->
           GenerationAnswered(generate_tasks(history, query, llm), S)
      [] family = "import" -> import_branch(query_lower, S, history)
      [] OTHER -> fallback_branch(S, history, llm)

\* NLPProcessor.process_query
process_query(query, S, history, llm) ==
    IF query = <<>>
    THEN Done(Failure("Invalid query: Query must be a non-empty string"), S, history, 0, 0)
    ELSE Classified(Family(Strip(Lower(query))), query, Strip(Lower(query)), S, history, llm)

\* ------------------------------------------------------------- inputs
\* The texts a client sends.
BulkQueries ==
    {<<"set", "all", "tasks", "set", "status", "to", "completed">>,
     <<"for", "tasks", "between", "1", "and", "2", "set", "priority", "to", "low">>,
     <<"for", "tasks", "between", "2", "and", "3", "set", "status", "to", "completed">>,
     <<"for", "tasks", "greater", "than", "0", "set", "status", "to", "bogus">>,
     <<"for", "tasks", "less", "than", "2", "to", "project", "1">>,
     <<"assign", "all", "tasks", "to", "user", "1">>,
     <<"assign", "all", "tasks", "to", "user", "9">>,
     <<"assign", "all", "tasks", "to", "testuser">>,
     <<"for", "tasks", "greater", "than">>,
     <<"for", "tasks", "between", "x", "and", "2", "set", "status", "to", "completed">>,
     <<"for", "tasks">>,
     <<"set", "all", "tasks">>}

RuleQueries ==
    {<<"Show", "tables", " ">>,
     <<"delete", "all", "projects">>,
     <<"delete", "project", "1", ",", "9", ",", "1">>,
     <<"delete", "project", "x">>,
     <<"delete", "projects", "1">>,
     <<"delete", "project", "how", "to", "add", "all">>,
     <<"delete", "all", "tasks">>}

\* A text with a generation marker ("how to") and an import marker
\* ("import all") in it.
GenerationQueries == {<<"how", "to", "import", "all">>}

ImportQueries ==
    {<<"import", "all">>,
     <<"Import", "all", "to", "project", "'Alpha'">>,
     <<"add", "these", "tasks", "to", "project", "alpha">>}

FallbackQueries == {<<"create", "a", "task">>}

Queries == BulkQueries \cup RuleQueries \cup GenerationQueries \cup ImportQueries
           \cup FallbackQueries \cup {<<>>}

\* The tasks an LLM proposes: a well-formed one, one with a priority
\* outside the enumerated set, one without a priority.
GoodTask == <<Pair("title", JStr("T")), Pair("description", JStr("d")),
              Pair("priority", JStr("high"))>>
UrgentTask == <<Pair("title", JStr("T")), Pair("description", JStr("d")),
                Pair("priority", JStr("urgent"))>>
NoPriorityTask == <<Pair("title", JStr("T")), Pair("description", JStr("d"))>>

\* The batches: well-formed tasks, the last one possibly not.
Batches ==
    {[i \in 1..n |-> GoodTask] : n \in 0..MaxBatch}
    \cup {[i \in 1..n |-> IF i = n THEN v ELSE GoodTask] :
             n \in 1..MaxBatch, v \in {UrgentTask, NoPriorityTask}}

\* What the LLM may answer to the generation prompt.
GenerationReplies ==
    {CallFailed("APIError"),
     Replied([NoContent EXCEPT !.fmt = "text"]),
     Replied([NoContent EXCEPT !.fmt = "badjson"]),
     Replied(JsonObject({"operation", "parameters", "natural_response"}, <<>>,
                        "search_tasks", <<>>))}
    \cup {Replied(JsonObject({"tasks"}, b, "", <<>>)) : b \in Batches}

\* A well-formed structured reply.
Structured(operation, parameters) ==
    Replied(JsonObject({"operation", "parameters", "natural_response"}, <<>>,
                       operation, parameters))

\* What the LLM may answer to the fallback prompt.
MalformedReplies ==
    {CallFailed("APIError"), CallFailed("RuntimeError"),
     Replied([NoContent EXCEPT !.fmt = "text"]),
     Replied([NoContent EXCEPT !.fmt = "badjson"]),
     Replied(JsonObject({"parameters", "natural_response"}, <<>>, "", <<>>)),
     Replied(JsonObject({"operation", "natural_response"}, <<>>, "create_task", <<>>)),
     Replied(JsonObject({"operation", "parameters"}, <<>>, "create_task",
                        <<Pair("title", JStr("T"))>>)),
     Replied(JsonObject({"tasks"}, <<GoodTask>>, "", <<>>)),
     Replied(JsonObject({"operation", "parameters", "natural_response", "confidence"},
                        <<>>, "create_task", <<Pair("title", JStr("T"))>>))}

ReadReplies ==
    {Structured("search_tasks", <<>>),
     Structured("search_tasks", <<Pair("status", JStr("pending"))>>),
     Structured("search_projects", <<>>),
     Structured("search_users", <<>>),
     Structured("list_tables", <<>>),
     Structured("frobnicate", <<>>),
     Structured("delete_project", <<Pair("delete_all", JBool(TRUE))>>),
     Structured("update_tasks", <<Pair("task_ids", JList(<<1>>)),
                                  Pair("status", JStr("completed"))>>)}

CreateTaskReplies ==
    {Structured("create_task", <<Pair("title", JStr("T"))>>),
     Structured("create_task", <<Pair("title", JStr("T")),
                                 Pair("project_id", JStr("Alpha"))>>),
     Structured("create_task", <<Pair("title", JStr("T")),
                                 Pair("project_id", JStr("alpha")),
                                 Pair("priority", JStr("high")),
                                 Pair("due_date", JStr("tomorrow"))>>),
     Structured("create_task", <<Pair("project_id", JStr("Alpha"))>>),
     Structured("create_task", <<Pair("title", JStr("T")),
                                 Pair("project_id", JStr("Alpha")),
                                 Pair("status", JStr("bogus"))>>),
     Structured("create_task", <<Pair("title", JStr("T")),
                                 Pair("priority", JStr("urgent"))>>),
     Structured("create_task", <<Pair("title", JNull)>>),
     Structured("create_task", <<Pair("title", JStr("T")), Pair("created_by", JNull)>>),
     Structured("create_task", <<Pair("title", JStr("T")),
                                 Pair("due_date", JStr("whenever"))>>)}

UpdateTaskReplies ==
    {Structured("update_task", <<Pair("task_id", JInt(1)),
                                 Pair("status", JStr("completed"))>>),
     Structured("update_task", <<Pair("task_id", JInt(1)),
                                 Pair("status", JStr("completed")),
                                 Pair("due_date", JStr("whenever"))>>),
     Structured("update_task", <<Pair("task_id", JInt(1)),
                                 Pair("due_date", JStr("tomorrow"))>>),
     Structured("update_task", <<Pair("task_id", JInt(1)),
                                 Pair("priority", JStr("urgent"))>>),
     Structured("update_task", <<Pair("task_id", JInt(1)),
                                 Pair("colour", JStr("red"))>>),
     Structured("update_task", <<Pair("task_id", JInt(3)),
                                 Pair("status", JStr("completed"))>>),
     Structured("update_task", <<Pair("status", JStr("completed"))>>)}

DeleteTaskReplies ==
    {Structured("delete_task", <<Pair("task_id", JInt(1))>>),
     Structured("delete_task", <<Pair("task_id", JInt(3))>>),
     Structured("delete_task", <<Pair("delete_all", JBool(TRUE))>>),
     Structured("delete_task", <<>>)}

CreateOtherReplies ==
    {Structured("create_project", <<Pair("name", JStr("alpha"))>>),
     Structured("create_project", <<Pair("description", JStr("d"))>>),
     Structured("create_user", <<Pair("username", JStr("bob")),
                                 Pair("email", JStr("bob@example.com"))>>),
     Structured("create_user", <<Pair("username", JStr("testuser")),
                                 Pair("email", JStr("other@example.com"))>>),
     Structured("create_user", <<Pair("username", JStr("bob"))>>)}

FallbackReplies ==
    MalformedReplies \cup ReadReplies \cup CreateTaskReplies \cup UpdateTaskReplies
    \cup DeleteTaskReplies \cup CreateOtherReplies

\* No completion call is made.
NoReply == CallFailed("not called")

\* ------------------------------------------------------------- state
VARIABLES
    store,                  \* the committed rows: tasks, projects, users
    conversation_history,   \* ChatProcessor.conversation_history
    received,               \* commands the connection has received
    last,                   \* the last command: text, LLM reply, result, response
    answered,               \* JSON responses sent on the connection
    waiting,                \* the loop is inside an LLM call that has not returned
    connection,             \* the rows as the one pooled database connection
                            \* shows them: the committed rows and what has
                            \* been flushed since
    handlers,               \* for each websocket connection, where its handler
                            \* stands and what it holds
    sessions,               \* how many database sessions the loop has created
                            \* and how many of them it has closed
    phase                   \* the generation/import sub-flow, as a record of
                            \* what happened: "idle" while no generation has
                            \* succeeded, "pending" since a generation
                            \* succeeded, "reset" since clear_conversation
                            \* was called on a pending batch

vars == <<store, conversation_history, received, last, answered, waiting, connection,
          handlers, sessions, phase>>

\* The database after startup and create_test_user.py.
InitialStore ==
    [tasks |-> EmptyTable, projects |-> EmptyTable,
     users |-> [i \in {1} |-> User("testuser", "test@example.com")]]

NoResult == Result(FALSE, "", NoData)

\* The websocket connections.
Connections == 1..MaxConnections

\* A handler that waits in receive_text, with the outcome of its last
\* command.
IdleHandler ==
    [pc |-> "idle", kind |-> "", ids |-> {}, found |-> {}, tasks |-> <<>>,
     project_id |-> NullId, bad |-> FALSE, success |-> FALSE, n |-> 0, updated |-> 0,
     generated |-> FALSE]

Init ==
    /\ store = InitialStore
    /\ connection = InitialStore
    /\ handlers = [c \in Connections |-> IdleHandler]
    /\ conversation_history = <<>>
    /\ received = 0
    /\ answered = 0
    /\ waiting = FALSE
    /\ sessions = [opened |-> 0, closed |-> 0]
    /\ last = [query |-> <<>>, llm |-> NoReply, family |-> "none",
               result |-> NoResult, sent |-> NoResult,
               gen_calls |-> 0, fallback_calls |-> 0, session |-> 0, ended |-> ""]
    /\ phase = "idle"

\* Faulty variant of SessionOpened: the session of the request before is
\* used again.
SessionShared(s) == IF s.opened = 0 THEN [s EXCEPT !.opened = 1] ELSE s

\* session = AsyncSessionLocal() (main.py line 53): a session of its own
\* for the request, numbered in the order of creation.
SessionOpened(s) == [s EXCEPT !.opened = s.opened + 1]

\* await session.close() in the finally branch (main.py lines 73-74).
SessionClosed(s) == [s EXCEPT !.closed = s.closed + 1]

\* The JSON the endpoint sends after process_query returned and the commit
\* went through (main.py lines 60-64).
SentAfterCommit(result) == Result(TRUE, result.response, result.data)

\* Faulty variant of ErrorFrames: the except branch sends nothing.
ErrorFramesNone(msg) == <<>>

\* What the except branch of the loop sends (main.py lines 65-72).
ErrorFrames(msg) == <<Failure("Error processing query: " \o msg)>>

\* One turn of the loop after session.commit() (main.py lines 57-74): the
\* response, or rollback and the error response when the commit raised;
\* then close.
Committed(r, c) ==
    [store |-> IF c.exc = "" THEN c.S.db ELSE rollback(c.S).db,
     history |-> r.history,
     result |-> r.result,
     sent |-> IF c.exc = "" THEN SentAfterCommit(r.result)
              ELSE Failure("Error processing query: " \o c.msg),
     frames |-> IF c.exc = "" THEN <<SentAfterCommit(r.result)>> ELSE ErrorFrames(c.msg),
     ended |-> IF c.exc = "" THEN "commit" ELSE "rollback",
     gen_calls |-> r.gen_calls,
     fallback_calls |-> r.fallback_calls]

\* One turn of the loop after process_query returned (main.py line 57).
Processed(r) == Committed(r, commit(r.S))

\* One turn of the loop of websocket_endpoint on a received text (main.py
\* lines 53-74): a session for the request, process_query, commit, the
\* response, close.
Turn(db, history, query, llm) ==
    Processed(process_query(query, NewSession(db), history, llm))

\* websocket_endpoint receives a text and answers it.
websocket_endpoint(query, llm) ==
    /\ received < MaxCommands
    /\ ~waiting
    /\ \E t \in {Turn(store, conversation_history, query, llm)} :
          /\ store' = t.store
          /\ conversation_history' = t.history
          /\ last' = [query |-> query, llm |-> llm, family |-> FamilyOf(query),
                      result |-> t.result, sent |-> t.sent,
                      gen_calls |-> t.gen_calls, fallback_calls |-> t.fallback_calls,
                      session |-> SessionOpened(sessions).opened, ended |-> t.ended]
          /\ answered' = answered + Len(t.frames)
          /\ phase' = IF FamilyOf(query) = "generation" /\ t.result.success
                      THEN "pending" ELSE phase
    /\ received' = received + 1
    /\ sessions' = SessionClosed(SessionOpened(sessions))
    /\ connection' = store'
    /\ UNCHANGED <<waiting, handlers>>

\* ------------------------------------------------------------- actions
\* The received texts by the family the classifier puts them in.
InvalidTexts == {q \in Queries : FamilyOf(q) = "invalid"}
BulkTexts == {q \in Queries : FamilyOf(q) = "bulk_update"}
SchemaTexts == {q \in Queries : FamilyOf(q) = "schema"}
DeleteAllProjectsTexts == {q \in Queries : FamilyOf(q) = "delete_all_projects"}
DeleteProjectsTexts == {q \in Queries : FamilyOf(q) = "delete_projects"}
DeleteAllTasksTexts == {q \in Queries : FamilyOf(q) = "delete_all_tasks"}
GenerationTexts == {q \in Queries : FamilyOf(q) = "generation"}
ImportTexts == {q \in Queries : FamilyOf(q) = "import"}
FallbackTexts == {q \in Queries : FamilyOf(q) = "fallback"}

InvalidQuery == \E q \in InvalidTexts : websocket_endpoint(q, NoReply)

BulkUpdate == \E q \in BulkTexts : websocket_endpoint(q, NoReply)

SchemaListing == \E q \in SchemaTexts : websocket_endpoint(q, NoReply)

DeleteAllProjects == \E q \in DeleteAllProjectsTexts : websocket_endpoint(q, NoReply)

DeleteProjectsById == \E q \in DeleteProjectsTexts : websocket_endpoint(q, NoReply)

DeleteAllTasks == \E q \in DeleteAllTasksTexts : websocket_endpoint(q, NoReply)

Generate ==
    \E q \in GenerationTexts, llm \in GenerationReplies : websocket_endpoint(q, llm)

Import == \E q \in ImportTexts : websocket_endpoint(q, NoReply)

Fallback ==
    \E q \in FallbackTexts, llm \in FallbackReplies : websocket_endpoint(q, llm)

\* The caller resets the conversation.
ClearConversation ==
    /\ conversation_history' = clear_conversation(conversation_history)
    /\ phase' = IF phase = "pending" THEN "reset" ELSE phase
    /\ UNCHANGED <<store, received, last, answered, waiting, connection, handlers, sessions>>

Next ==
    \/ InvalidQuery
    \/ BulkUpdate
    \/ SchemaListing
    \/ DeleteAllProjects
    \/ DeleteProjectsById
    \/ DeleteAllTasks
    \/ Generate
    \/ Import
    \/ Fallback
    \/ ClearConversation

Spec == Init /\ [][Next]_vars

\* ------------------------------------------------------------- LLM calls that do not return
\* websocket_endpoint receives a text of the generation or fallback family
\* and the completion call of its branch does not return: the call is made
\* without a timeout and nothing around it sets a deadline, so the loop
\* stays inside process_query.  generate_tasks has appended the user
\* message before it calls.
HungCall(query) ==
    /\ received < MaxCommands
    /\ ~waiting
    /\ received' = received + 1
    /\ waiting' = TRUE
    /\ conversation_history' =
          IF FamilyOf(query) = "generation"
          THEN Append(conversation_history, UserMessage(query))
          ELSE conversation_history
    /\ sessions' = SessionOpened(sessions)
    /\ UNCHANGED <<store, last, answered, connection, handlers, phase>>

HungGenerate == \E q \in GenerationTexts : HungCall(q)

HungFallback == \E q \in FallbackTexts : HungCall(q)

NextOrHang ==
    \/ Next
    \/ HungGenerate
    \/ HungFallback

\* The connection with LLM calls that may not return.  The event loop runs
\* the handler whenever it can take a step.
SpecOrHang == Init /\ [][NextOrHang]_vars /\ WF_vars(NextOrHang)

\* ------------------------------------------------------------- concurrent connections
\* Several websocket connections are served by one event loop: a handler
\* runs until it awaits the database, and the handlers of the other
\* connections run meanwhile.  The completion calls are synchronous, so
\* nothing runs during them.  All sessions draw the one connection of the
\* StaticPool (async_db.py lines 14-19): what a session has flushed is seen
\* by the statements of every session, and a commit makes all of it
\* permanent.

\* The commands the connections send.
ConcurrentGeneration == <<"how", "to", "import", "all">>
ConcurrentBatches == {<<GoodTask>>, <<GoodTask, GoodTask>>}
ConcurrentCreateTask == <<Pair("title", JStr("T")), Pair("project_id", JStr("Alpha"))>>
ConcurrentDeleteTask == <<Pair("task_id", JInt(1))>>

\* The handler of connection c, at its await `pc`, with what it has so far.
At(h, pc) == [h EXCEPT !.pc = pc]
Began(h, kind, pc) == [IdleHandler EXCEPT !.pc = pc, !.kind = kind, !.generated = h.generated]
Succeeded(h, n) == [h EXCEPT !.pc = "commit", !.success = TRUE, !.n = n]
Failed(h) == [h EXCEPT !.pc = "commit", !.success = FALSE]

\* receive_text and session = AsyncSessionLocal() (main.py lines 50-53).
Received(c) ==
    /\ handlers[c].pc = "idle"
    /\ received < MaxIssued
    /\ received' = received + 1
    /\ sessions' = SessionOpened(sessions)
    /\ UNCHANGED <<last, answered, waiting, phase>>

\* A step of the handler of c between two awaits.
Resumed(c, pc) ==
    /\ handlers[c].pc = pc
    /\ UNCHANGED <<received, sessions, last, answered, waiting, phase>>

\* A generation command: generate_tasks runs without an await up to the
\* return of process_query; the handler then awaits its commit.
ReceiveGeneration(c) ==
    /\ Received(c)
    /\ \E b \in ConcurrentBatches :
          \E g \in {generate_tasks(conversation_history, ConcurrentGeneration,
                                   Replied(JsonObject({"tasks"}, b, "", <<>>)))} :
             /\ conversation_history' = g.history
             /\ handlers' = [handlers EXCEPT ![c] =
                   [Succeeded(Began(handlers[c], "generation", "commit"), g.result.data.n)
                       EXCEPT !.generated = TRUE]]
    /\ UNCHANGED <<store, connection>>

\* Faulty variant of ImportTaken: the first reply of the history is taken.
ImportTakenFirst(history) ==
    IF Len(history) >= 2 /\ history[2].role = "assistant"
       /\ JsonLoads(history[2].content).exc = ""
    THEN [found |-> TRUE, tasks |-> JsonLoads(history[2].content).tasks]
    ELSE [found |-> FALSE, tasks |-> <<>>]

\* The batch the import branch takes from the history (nlp_processor.py
\* lines 275-279).
ImportTaken(history) ==
    IF history # <<>> /\ history[Len(history)].role = "assistant"
       /\ JsonLoads(history[Len(history)].content).exc = ""
    THEN [found |-> TRUE, tasks |-> JsonLoads(history[Len(history)].content).tasks]
    ELSE [found |-> FALSE, tasks |-> <<>>]

\* 'import all': the batch is taken and its tasks are added to the
\* session; import_tasks then awaits session.commit().
ReceiveImport(c) ==
    /\ Received(c)
    /\ \E t \in {ImportTaken(conversation_history)} :
          handlers' = [handlers EXCEPT ![c] =
             IF t.found
             THEN [Began(handlers[c], "import", "import_commit") EXCEPT !.tasks = t.tasks]
             ELSE Failed(Began(handlers[c], "import", "commit"))]
    /\ UNCHANGED <<store, connection, conversation_history>>

\* session.commit() of import_tasks (chat_processor.py line 162): the
\* tasks are inserted and the transaction is committed.
ImportCommit(c) ==
    /\ Resumed(c, "import_commit")
    /\ connection' = AddTasks(connection, handlers[c].tasks, 1, NullId)
    /\ store' = connection'
    /\ handlers' = [handlers EXCEPT ![c] = Succeeded(@, Len(handlers[c].tasks))]
    /\ UNCHANGED conversation_history

\* The first await of the commands that begin with a statement: the
\* lookup of the project by name for a fallback command the LLM answers
\* with create_task for project "Alpha" (nlp_processor.py line 648), the
\* selection of the ids for 'set all tasks set status to completed' (line
\* 49), the selection of the task for a fallback command the LLM answers
\* with delete_task for task 1 (line 747).
FirstAwait ==
    {<<"create_task", "lookup">>, <<"bulk_update", "select_ids">>,
     <<"delete_task", "select_task">>}

\* One of these commands is received and runs up to its first await.
ReceiveCommand(c) ==
    /\ Received(c)
    /\ \E k \in FirstAwait : handlers' = [handlers EXCEPT ![c] = Began(@, k[1], k[2])]
    /\ UNCHANGED <<store, connection, conversation_history>>

\* _create_task after the lookup (nlp_processor.py lines 648-658): the
\* project found is used, a missing one is added and the flush awaited.
ProjectLookup(c) ==
    /\ Resumed(c, "lookup")
    /\ \E found \in {ScalarOneOrNone(ProjectsNamed(connection, "Alpha"))} :
          handlers' = [handlers EXCEPT ![c] =
             IF found.exc # "" THEN Failed(@)
             ELSE IF found.id # NullId
                  THEN [At(@, "flush_task") EXCEPT !.project_id = found.id]
                  ELSE At(@, "flush_project")]
    /\ UNCHANGED <<store, connection, conversation_history>>

\* The flush of the new project (line 657).
FlushProject(c) ==
    /\ Resumed(c, "flush_project")
    /\ connection' = [connection EXCEPT !.projects = Insert(@, Project("Alpha"))]
    /\ handlers' = [handlers EXCEPT ![c] =
          [At(@, "flush_task") EXCEPT !.project_id = NextId(connection.projects)]]
    /\ UNCHANGED <<store, conversation_history>>

\* The flush of the new task (lines 660-670).
FlushTask(c) ==
    /\ Resumed(c, "flush_task")
    /\ connection' = [connection EXCEPT !.tasks =
          Insert(@, TaskFromParams(ConcurrentCreateTask, handlers[c].project_id))]
    /\ handlers' = [handlers EXCEPT ![c] = Succeeded(@, NextId(connection.tasks))]
    /\ UNCHANGED <<store, conversation_history>>

\* The ids are selected (lines 49-71); _update_tasks then awaits its own
\* selection of the tasks.
SelectIds(c) ==
    /\ Resumed(c, "select_ids")
    /\ handlers' = [handlers EXCEPT ![c] =
          IF DOMAIN connection.tasks = {} THEN Failed(@)
          ELSE [At(@, "select_tasks") EXCEPT !.ids = DOMAIN connection.tasks]]
    /\ UNCHANGED <<store, connection, conversation_history>>

\* _update_tasks selects the tasks of the ids (lines 816-819), sets the
\* field on those it found and awaits the flush.
SelectTasks(c) ==
    /\ Resumed(c, "select_tasks")
    /\ handlers' = [handlers EXCEPT ![c] =
          IF handlers[c].ids \cap DOMAIN connection.tasks = {} THEN Failed(@)
          ELSE [At(@, "flush_update") EXCEPT
                   !.found = handlers[c].ids \cap DOMAIN connection.tasks]]
    /\ UNCHANGED <<store, connection, conversation_history>>

\* The flush of _update_tasks (line 829) and the result of the branch
\* (lines 149-154), whose N is len(task_ids) while updated_tasks holds the
\* tasks found.  An UPDATE that matches no row makes the flush raise
\* StaleDataError, which ends in a failed result and a session that only
\* rolls back.
FlushUpdate(c) ==
    /\ Resumed(c, "flush_update")
    /\ IF handlers[c].found \subseteq DOMAIN connection.tasks
       THEN /\ connection' = [connection EXCEPT !.tasks =
                  [i \in DOMAIN connection.tasks |->
                      IF i \in handlers[c].found
                      THEN SetColumn(connection.tasks[i], "status", JStr("completed"))
                      ELSE connection.tasks[i]]]
            /\ handlers' = [handlers EXCEPT ![c] =
                  [Succeeded(@, Cardinality(handlers[c].ids))
                      EXCEPT !.updated = Cardinality(handlers[c].found)]]
       ELSE /\ connection' = connection
            /\ handlers' = [handlers EXCEPT ![c] = [Failed(@) EXCEPT !.bad = TRUE]]
    /\ UNCHANGED <<store, conversation_history>>

\* _delete_task after the selection (lines 747-753).
SelectTask(c) ==
    /\ Resumed(c, "select_task")
    /\ handlers' = [handlers EXCEPT ![c] =
          IF AsInt(Get(ConcurrentDeleteTask, "task_id")) \in DOMAIN connection.tasks
          THEN At(@, "flush_delete") ELSE Failed(@)]
    /\ UNCHANGED <<store, connection, conversation_history>>

\* The flush of the deletion (line 753).
FlushDelete(c) ==
    /\ Resumed(c, "flush_delete")
    /\ connection' = [connection EXCEPT !.tasks =
          Remove(@, {AsInt(Get(ConcurrentDeleteTask, "task_id"))})]
    /\ handlers' = [handlers EXCEPT ![c] =
          Succeeded(@, AsInt(Get(ConcurrentDeleteTask, "task_id")))]
    /\ UNCHANGED <<store, conversation_history>>

\* session.commit() of the loop (main.py line 57); a session whose flush
\* failed raises, and the except branch rolls back (line 66).
SessionCommit(c) ==
    /\ Resumed(c, "commit")
    /\ IF handlers[c].bad
       THEN store' = store /\ connection' = store
       ELSE store' = connection /\ connection' = connection
    /\ handlers' = [handlers EXCEPT ![c] = [At(@, "respond") EXCEPT !.bad = FALSE]]
    /\ UNCHANGED conversation_history

\* send_text and session.close() (main.py lines 60-74).
Respond(c) ==
    /\ handlers[c].pc = "respond"
    /\ handlers' = [handlers EXCEPT ![c] = At(@, "idle")]
    /\ answered' = answered + 1
    /\ sessions' = SessionClosed(sessions)
    /\ UNCHANGED <<store, connection, conversation_history, received, last, waiting, phase>>

NextConcurrent ==
    \/ \E c \in Connections : ReceiveGeneration(c)
    \/ \E c \in Connections : ReceiveImport(c)
    \/ \E c \in Connections : ImportCommit(c)
    \/ \E c \in Connections : ReceiveCommand(c)
    \/ \E c \in Connections : ProjectLookup(c)
    \/ \E c \in Connections : FlushProject(c)
    \/ \E c \in Connections : FlushTask(c)
    \/ \E c \in Connections : SelectIds(c)
    \/ \E c \in Connections : SelectTasks(c)
    \/ \E c \in Connections : FlushUpdate(c)
    \/ \E c \in Connections : SelectTask(c)
    \/ \E c \in Connections : FlushDelete(c)
    \/ \E c \in Connections : SessionCommit(c)
    \/ \E c \in Connections : Respond(c)

\* The server with several connections.
SpecConcurrent == Init /\ [][NextConcurrent]_vars


\* ------------------------------------------------------------- properties
\* The step is a command the connection received and answered.
Command == received' = received + 1

\* The step is a command of the family.
CommandOf(family) == Command /\ last'.family = family

\* The families the classifier answers by rule.
RuleFamilies == {"bulk_update", "schema", "delete_all_projects", "delete_projects",
                 "delete_all_tasks", "generation", "import"}

\* The operation a fallback command was told to run ("" when the reply is
\* no structured response).
OperationOf(l) ==
    IF l.family = "fallback" /\ l.llm.exc = "" /\ l.llm.content.fmt = "json"
    THEN l.llm.content.operation ELSE ""

\* The parameters a fallback command was given.
ParametersOf(l) == l.llm.content.parameters

\* The last command was one that writes to the store.
Mutating(l) ==
    \/ l.family \in {"bulk_update", "delete_all_projects", "delete_projects",
                     "delete_all_tasks", "import"}
    \/ OperationOf(l) \in {"create_task", "update_task", "update_tasks", "delete_task",
                           "delete_project", "create_project", "create_user"}

\* The project name a text names as the client typed it ("" for none).
TypedProjectName(query) ==
    IF Contains(Strip(query), <<"to", "project">>)
    THEN StripQuotes(Join(Words(SplitSecond(Strip(query), <<"to", "project">>))))
    ELSE ""

\* The tasks of new that old does not hold.
NewTasks(old, new) == DOMAIN new.tasks \ DOMAIN old.tasks

\* Every row of old is in new as it was.
KeepsTasks(old, new) ==
    \A i \in DOMAIN old.tasks : i \in DOMAIN new.tasks /\ new.tasks[i] = old.tasks[i]

\* Every priority of the batch is an enumerated one.
ValidBatch(tasks) ==
    \A k \in 1..Len(tasks) : AsStr(Get(tasks[k], "priority")) \in PriorityValues

\* The pending batch an import reads: the tasks of the last message of the
\* history.
PendingBatch(history) == JsonLoads(history[Len(history)].content).tasks

\* The last command was a generation that succeeded, and the conversation
\* has not been reset since.
GenerationJustSucceeded ==
    last.family = "generation" /\ last.result.success /\ phase = "pending"

\* The response of an import that finds no pending batch.
NoTasksToImport == "No tasks found to import. Please generate tasks first."

\* C1: a command of a rule-based family is answered without the
\* structured-operation prompt being sent to the LLM, whatever the outcome
\* of its branch (success, failure, exception).
C1_RuleFamiliesNeverFallBack ==
    last.family \in RuleFamilies => last.fallback_calls = 0

\* C1: a bulk update whose selection raised an IndexError was answered.
C1_Witness ==
    /\ last.family = "bulk_update"
    /\ last.result.response = "Unexpected error: IndexError"

\* C2: a mutating command that ends with a failed result leaves the
\* committed store as it was before the command.
C2_FailedCommandLeavesStore ==
    [][(Command /\ Mutating(last') /\ ~last'.result.success) => store' = store]_vars

\* C3: a failed result is sent with success = false and data = null, and
\* success = true is sent only for a result with success = true.
C3_FailureIsSentAsFailure ==
    /\ ~last.result.success => (~last.sent.success /\ last.sent.data = NoData)
    /\ last.sent.success => last.result.success

\* The import persisted n new tasks in the project named name, creating it
\* if and only if the store held no project of that name.
ImportedInto(old, new, n, name) ==
    /\ Cardinality(NewTasks(old, new)) = n
    /\ Cardinality(DOMAIN new.tasks) = Cardinality(DOMAIN old.tasks) + n
    /\ KeepsTasks(old, new)
    /\ \A i \in NewTasks(old, new) :
          /\ new.tasks[i].project_id \in DOMAIN new.projects
          /\ new.projects[new.tasks[i].project_id].name = name
    /\ IF \E p \in DOMAIN old.projects : old.projects[p].name = name
       THEN new.projects = old.projects
       ELSE /\ Cardinality(DOMAIN new.projects) = Cardinality(DOMAIN old.projects) + 1
            /\ \A p \in DOMAIN old.projects :
                  p \in DOMAIN new.projects /\ new.projects[p] = old.projects[p]

\* C4: an import naming project P right after a successful generation of N
\* valid tasks persists exactly N new tasks, all in the project named P,
\* which is created if and only if no project named P existed.
C4_ImportPersistsBatchInNamedProject ==
    [][(/\ GenerationJustSucceeded
        /\ ValidBatch(last.llm.content.tasks)
        /\ CommandOf("import")
        /\ TypedProjectName(last'.query) # "")
       => ImportedInto(store, store', last.result.data.n,
                       TypedProjectName(last'.query))]_vars

\* C5: an import while no generation has succeeded since the start or the
\* last reset fails with the no-tasks message and leaves tasks and
\* projects as they were.
C5_ImportWhenIdleFails ==
    [][(CommandOf("import") /\ phase # "pending")
       => /\ ~last'.result.success
          /\ last'.result.response = NoTasksToImport
          /\ store'.tasks = store.tasks
          /\ store'.projects = store.projects]_vars

\* C5: an import was refused although the history is not empty: the one
\* generation before it failed.
C5_Witness ==
    /\ last.family = "import"
    /\ phase = "idle"
    /\ conversation_history # <<>>
    /\ last.result.response = NoTasksToImport

\* The k-th new task has the priority of the k-th task of the batch, medium
\* where the batch has none of the enumerated ones.
PersistedWithMedium(old, new, tasks) ==
    /\ Cardinality(NewTasks(old, new)) = Len(tasks)
    /\ \A k \in 1..Len(tasks) :
          k <= Cardinality(NewTasks(old, new)) =>
          new.tasks[Ascending(NewTasks(old, new))[k]].priority =
             IF AsStr(Get(tasks[k], "priority")) \in PriorityValues
             THEN AsStr(Get(tasks[k], "priority")) ELSE "medium"

\* C6: when a successful generation's reply held a priority outside low,
\* medium, high, the pending batch the next import reads has medium in its
\* place, and the import succeeds and persists that task with medium.
C6_InvalidPriorityIsMediumAtImport ==
    [][(/\ GenerationJustSucceeded
        /\ ~ValidBatch(last.llm.content.tasks)
        /\ CommandOf("import"))
       => /\ ValidBatch(PendingBatch(conversation_history))
          /\ last'.result.success
          /\ PersistedWithMedium(store, store', last.llm.content.tasks)]_vars

\* C7: an import repeated right after it succeeded, with no generation or
\* reset in between, succeeds again and persists as many tasks again as the
\* first one did, the pending batch being still in place.
C7_RepeatedImportPersistsAgain ==
    [][(/\ last.family = "import" /\ last.result.success /\ phase = "pending"
        /\ CommandOf("import")
        /\ last'.query = last.query)
       => /\ last'.result.success
          /\ last.result.data.n = Len(PendingBatch(conversation_history))
          /\ last'.result.data.n = last.result.data.n
          /\ Cardinality(NewTasks(store, store')) = last.result.data.n
          /\ KeepsTasks(store, store')
          /\ conversation_history' = conversation_history]_vars

\* C7: a batch of MaxBatch tasks has been imported twice.
C7_Witness ==
    /\ last.family = "import"
    /\ last.result.success
    /\ last.result.data.n = MaxBatch
    /\ Cardinality(DOMAIN store.tasks) = 2 * MaxBatch
    /\ received = 3

\* C8: after a reset of a pending batch, and until a generation succeeds,
\* an import fails with the no-tasks message and persists nothing.
C8_ImportAfterResetFails ==
    [][(CommandOf("import") /\ phase = "reset")
       => /\ ~last'.result.success
          /\ last'.result.response = NoTasksToImport
          /\ store' = store
          /\ phase' = "reset"]_vars

\* C8: an import was refused after a reset that followed a generation.
C8_Witness ==
    /\ phase = "reset"
    /\ last.family = "import"
    /\ last.result.response = NoTasksToImport

\* The project id the parameters give as a text ("" when they give none).
NamedProject(params) ==
    IF Get(params, "project_id").ty = "str" THEN Get(params, "project_id").s ELSE ""

\* The step is a create_task that names its project and succeeds.
CreateTaskNaming ==
    /\ Command
    /\ OperationOf(last') = "create_task"
    /\ NamedProject(ParametersOf(last')) # ""
    /\ last'.result.success

\* C9: a successful create_task whose project_id is a name no project has
\* creates one project of that name and one task referencing it; the same
\* create_task again creates one more task referencing the same project
\* and no project.
C9_CreateTaskCreatesProjectOnce ==
    [][CreateTaskNaming =>
         /\ Cardinality(NewTasks(store, store')) = 1
         /\ KeepsTasks(store, store')
         /\ \A i \in NewTasks(store, store') :
               /\ store'.tasks[i].project_id \in DOMAIN store'.projects
               /\ store'.projects[store'.tasks[i].project_id].name
                     = NamedProject(ParametersOf(last'))
         /\ (\A p \in DOMAIN store.projects :
                 store.projects[p].name # NamedProject(ParametersOf(last')))
            => Cardinality(DOMAIN store'.projects)
                  = Cardinality(DOMAIN store.projects) + 1
         /\ (/\ OperationOf(last) = "create_task" /\ last.result.success
             /\ last'.llm = last.llm)
            => /\ store'.projects = store.projects
               /\ \A i \in NewTasks(store, store') :
                     store'.tasks[i].project_id
                        = store.tasks[last.result.data.n].project_id]_vars

\* C9: the same create_task naming a project has succeeded twice: two
\* tasks in one project.
C9_Witness ==
    /\ received = 2
    /\ OperationOf(last) = "create_task"
    /\ NamedProject(ParametersOf(last)) # ""
    /\ last.result.success
    /\ Cardinality(DOMAIN store.tasks) = 2
    /\ Cardinality(DOMAIN store.projects) = 1

\* The step is a delete_task of one task that the store does not hold.
DeleteMissingTask ==
    /\ Command
    /\ OperationOf(last') = "delete_task"
    /\ ~Truthy(GetOr(ParametersOf(last'), "delete_all", JBool(FALSE)))
    /\ Truthy(Get(ParametersOf(last'), "task_id"))
    /\ AsInt(Get(ParametersOf(last'), "task_id")) \notin DOMAIN store.tasks

\* C10: delete_task of a task_id the store does not hold fails with a
\* not-found message and leaves tasks, projects and users as they were.
C10_DeleteMissingTaskFails ==
    [][DeleteMissingTask =>
         /\ ~last'.result.success
         /\ last'.result.response =
               "Unexpected error: Error deleting task(s): Task with ID "
               \o ToString(AsInt(Get(ParametersOf(last'), "task_id"))) \o " not found"
         /\ store' = store]_vars

\* C10: a delete_task of a missing id was refused while the store held
\* another task.
C10_Witness ==
    /\ OperationOf(last) = "delete_task"
    /\ last.result.response =
          "Unexpected error: Error deleting task(s): Task with ID 3 not found"
    /\ DOMAIN store.tasks # {}

\* The step is a bulk update "for tasks between N and M set <field> to
\* <value>" with numbers for N and M.
BetweenCommand ==
    /\ CommandOf("bulk_update")
    /\ Len(last'.query) = 10
    /\ SubSeq(last'.query, 1, 3) = <<"for", "tasks", "between">>
    /\ IsDigit(last'.query[4])
    /\ last'.query[5] = "and"
    /\ IsDigit(last'.query[6])
    /\ last'.query[7] = "set"
    /\ last'.query[8] \in {"status", "priority"}
    /\ last'.query[9] = "to"

\* The tasks of the store with N <= id <= M.
TasksBetween(old, n, m) == {i \in DOMAIN old.tasks : n <= i /\ i <= m}

\* The value is one the field admits.
Admitted(field, value) ==
    IF field = "status" THEN value \in StatusValues ELSE value \in PriorityValues

\* C11: "for tasks between N and M set <field> to <value>" with an admitted
\* value succeeds when some task has N <= id <= M, and then sets the field
\* of exactly those tasks, leaving every task with id < N or id > M, and
\* every other field, as it was.
C11_BetweenSelectsClosedInterval ==
    [][BetweenCommand =>
         /\ (/\ TasksBetween(store, IntOf(last'.query[4]), IntOf(last'.query[6])) # {}
             /\ Admitted(last'.query[8], last'.query[10]))
            => last'.result.success
         /\ last'.result.success =>
              /\ DOMAIN store'.tasks = DOMAIN store.tasks
              /\ last'.result.data.n =
                    Cardinality(TasksBetween(store, IntOf(last'.query[4]),
                                             IntOf(last'.query[6])))
              /\ \A i \in DOMAIN store.tasks :
                    store'.tasks[i] =
                       IF i \in TasksBetween(store, IntOf(last'.query[4]),
                                             IntOf(last'.query[6]))
                       THEN [store.tasks[i] EXCEPT ![last'.query[8]] = last'.query[10]]
                       ELSE store.tasks[i]
              /\ store'.projects = store.projects
              /\ store'.users = store.users]_vars

\* C11: "between 1 and 2" has set the priority of tasks 1 and 2 and left
\* task 3 as it was.
C11_Witness ==
    /\ last.family = "bulk_update"
    /\ Len(last.query) = 10
    /\ last.query[3] = "between"
    /\ last.result.success
    /\ DOMAIN store.tasks = {1, 2, 3}
    /\ store.tasks[1].priority = "low"
    /\ store.tasks[2].priority = "low"
    /\ store.tasks[3].priority = "high"

\* C12: a successful schema listing, by the schema command or by the
\* list_tables operation, returns one entry per table of the persisted
\* schema with that table's columns as they are persisted.
C12_ListingReflectsPersistedSchema ==
    (last.result.success /\ last.result.data.tag = "tables")
       => last.result.data.tables = PersistedSchema

\* The operation names the fallback prompt offers.
KnownOperations ==
    {"search_tasks", "create_task", "update_task", "delete_task", "create_project",
     "search_projects", "list_tables", "create_user", "search_users"}

\* The reply is one JSON object with exactly the keys operation, parameters
\* and natural_response, and its operation is a known one.
Conforming(llm) ==
    /\ llm.exc = ""
    /\ llm.content.fmt = "json"
    /\ llm.content.keys = {"operation", "parameters", "natural_response"}
    /\ llm.content.operation \in KnownOperations

\* The responses of a reply that the validation turned down.
ValidationFailures(llm) ==
    {"Invalid response format: Response must be a JSON object",
     "Error processing the request: Invalid response format",
     "Invalid response structure: missing operation field",
     "Invalid response structure: missing parameters field",
     "Invalid response structure: missing natural_response field",
     "Unexpected error: Unknown operation: " \o llm.content.operation}

\* C13: in the fallback path a reply that is not one JSON object with
\* exactly the three keys and a known operation ends in a failed result and
\* leaves the store as it was, and a reply that is one is not turned down by
\* the validation.
C13_FallbackAcceptsExactlyConforming ==
    [][CommandOf("fallback") =>
         IF Conforming(last'.llm)
         THEN last'.result.response \notin ValidationFailures(last'.llm)
         ELSE ~last'.result.success /\ store' = store]_vars

\* The families in the order of their tests.
FamilyOrder ==
    <<"bulk_update", "schema", "delete_all_projects", "delete_projects",
      "delete_all_tasks", "generation", "import", "fallback">>

\* The pattern of the family matches the lower-cased, trimmed text.
Matches(family, text) ==
    CASE family = "bulk_update" -> \E p \in BulkPrefixes : StartsWith(text, p)
      [] family = "schema" -> text \in SchemaPhrases
      [] family = "delete_all_projects" -> text \in DeleteAllProjectsPhrases
      [] family = "delete_projects" -> \E p \in DeleteProjectPrefixes : StartsWith(text, p)
      [] family = "delete_all_tasks" -> text = <<"delete", "all", "tasks">>
      [] family = "generation" -> \E p \in GenerationPatterns : Contains(text, p)
      [] family = "import" -> \E p \in import_patterns : Contains(text, p)
      [] OTHER -> TRUE

\* The first family of the order whose pattern matches.
FirstMatch(text) ==
    FamilyOrder[MinOf({k \in 1..Len(FamilyOrder) : Matches(FamilyOrder[k], text)})]

\* The first matching family of each text a client sends.
ExpectedFamily == [q \in Queries \ {<<>>} |-> FirstMatch(Strip(Lower(q)))]

\* The text matches the patterns of several families before the fallback.
MatchesSeveral(text) ==
    Cardinality({k \in 1..(Len(FamilyOrder) - 1) : Matches(FamilyOrder[k], text)}) > 1

\* C14: a non-empty text is handled by the first family, in the order of
\* the tests, whose pattern matches its lower-cased trimmed form, and by no
\* later one: the generation prompt is sent only by the generation family
\* (which writes nothing to the store), the fallback prompt only by the
\* fallback, and the history is touched by the generation family only.
C14_FirstMatchingFamilyHandles ==
    [][(Command /\ last'.query # <<>>) =>
         /\ last'.family = ExpectedFamily[last'.query]
         /\ last'.gen_calls = IF last'.family = "generation" THEN 1 ELSE 0
         /\ last'.fallback_calls = IF last'.family = "fallback" THEN 1 ELSE 0
         /\ last'.family = "generation" => store' = store
         /\ last'.family # "generation" => conversation_history' = conversation_history
         /\ last'.family \in {"schema", "generation"} => store' = store]_vars

\* C14: with a batch pending, a text with a generation marker and an import
\* marker was handled as a generation: the prompt was sent and nothing was
\* imported.
C14_Witness ==
    /\ received = 2
    /\ last.query = <<"how", "to", "import", "all">>
    /\ MatchesSeveral(Strip(Lower(last.query)))
    /\ last.family = "generation"
    /\ last.gen_calls = 1
    /\ Len(conversation_history) >= 3
    /\ conversation_history[2].role = "assistant"
    /\ store.tasks = EmptyTable

\* C15: every command the connection received has been answered by exactly
\* one JSON response before the next one is received: between two turns of
\* the loop the responses sent are as many as the commands received, and
\* each turn sends one.
C15_OneResponsePerCommand ==
    [][/\ answered = received
       /\ Command => answered' = answered + 1
       /\ ~Command => answered' = answered]_vars

\* C15: a command whose commit raised was answered from the except branch
\* of the loop, and every command before it was answered too.
C15_Witness ==
    /\ received = MaxCommands
    /\ answered = MaxCommands
    /\ ~last.sent.success
    /\ last.sent.response = "Error processing query: transaction has been rolled back"

\* The parameters name a status or priority outside its enumerated set, or
\* a null creator.
OffersBadValue(params) ==
    \/ Has(params, "status") /\ AsStr(Get(params, "status")) \notin StatusValues
    \/ Has(params, "priority") /\ AsStr(Get(params, "priority")) \notin PriorityValues
    \/ Has(params, "created_by") /\ AsInt(Get(params, "created_by")) = NullId

\* The last command would have stored a task with a status or priority
\* outside its set or without a creator: a create_task or update_task
\* that offers one, or an import of a batch that holds one.
WouldStoreBadTask ==
    \/ /\ OperationOf(last) \in {"create_task", "update_task"}
       /\ OffersBadValue(ParametersOf(last))
    \/ /\ last.family = "import"
       /\ conversation_history # <<>>
       /\ conversation_history[Len(conversation_history)].role = "assistant"
       /\ ~ValidBatch(PendingBatch(conversation_history))

\* C16: every persisted task has a status among pending, in_progress,
\* completed, a priority among low, medium, high and a creator, and a
\* command that would have stored another value has failed.
C16_PersistedTasksWellFormed ==
    /\ \A i \in DOMAIN store.tasks :
          /\ store.tasks[i].status \in StatusValues
          /\ store.tasks[i].priority \in PriorityValues
          /\ store.tasks[i].created_by # NullId
    /\ WouldStoreBadTask => ~last.result.success

\* C16: an update_task that offered the priority "urgent" for a persisted
\* task has failed, and the task has the priority it had.
C16_Witness ==
    /\ OperationOf(last) = "update_task"
    /\ OffersBadValue(ParametersOf(last))
    /\ AsInt(Get(ParametersOf(last), "task_id")) \in DOMAIN store.tasks
    /\ ~last.result.success
    /\ store.tasks[AsInt(Get(ParametersOf(last), "task_id"))].priority = "medium"

\* C17: every command the connection received is eventually answered, also
\* when the LLM call of a generation or fallback command does not return.
C17_EveryCommandIsAnswered == (answered < received) ~> (answered = received)

\* The reply to the generation prompt is a failed call or no well-formed
\* object with a tasks array of complete tasks.
MalformedGeneration(llm) ==
    \/ llm.exc # ""
    \/ llm.content.fmt # "json"
    \/ "tasks" \notin llm.content.keys
    \/ \E i \in 1..Len(llm.content.tasks) :
          \E k \in {"title", "description", "priority"} : ~Has(llm.content.tasks[i], k)

\* C18: handling one command sends at most one prompt to the LLM; a failed
\* or malformed generation reply is answered by a failed result after the
\* one generation prompt and no fallback prompt, and a failed fallback call
\* by a failed result after the one fallback prompt.
C18_AtMostOneLLMCallPerCommand ==
    /\ last.gen_calls + last.fallback_calls <= 1
    /\ (last.family = "generation" /\ MalformedGeneration(last.llm))
          => (~last.result.success /\ last.gen_calls = 1 /\ last.fallback_calls = 0)
    /\ (last.family = "fallback" /\ last.llm.exc # "")
          => (~last.result.success /\ last.fallback_calls = 1 /\ last.gen_calls = 0)

\* C18: a generation whose reply opened with a brace but was no JSON has
\* been answered by a failed result after one prompt.
C18_Witness ==
    /\ last.family = "generation"
    /\ last.llm.exc = ""
    /\ last.llm.content.fmt = "badjson"
    /\ ~last.result.success
    /\ last.gen_calls = 1

\* The step is an update_task that succeeds.
UpdateTaskSucceeds ==
    /\ Command
    /\ OperationOf(last') = "update_task"
    /\ last'.result.success

\* The step is an update_task of a persisted task whose parameters, the
\* task_id aside, name no attribute of a task.
UpdateTaskNamesNoColumn ==
    /\ Command
    /\ OperationOf(last') = "update_task"
    /\ AsInt(Get(ParametersOf(last'), "task_id")) \in DOMAIN store.tasks
    /\ \A k \in 1..Len(ParametersOf(last')) :
          ParametersOf(last')[k].k \notin TaskColumns

\* The value a column has after the parameters were applied to it.
Assigned(params, column) ==
    IF column \in {"title", "status", "priority"} THEN AsStr(Get(params, column))
    ELSE IF column = "due_date" THEN DateParserParse(Get(params, column).s)
    ELSE AsInt(Get(params, column))

\* C19: a successful update_task on task T gives the columns its
\* parameters name their values and leaves every other column of T, every
\* other task, the projects and the users as they were; parameters that
\* name no attribute of a task change nothing and the update succeeds.
C19_UpdateTaskChangesOnlyNamedFields ==
    [][/\ UpdateTaskSucceeds =>
            /\ DOMAIN store'.tasks = DOMAIN store.tasks
            /\ \A i \in DOMAIN store.tasks :
                  i # AsInt(Get(ParametersOf(last'), "task_id"))
                     => store'.tasks[i] = store.tasks[i]
            /\ \A c \in TaskColumns :
                  store'.tasks[AsInt(Get(ParametersOf(last'), "task_id"))][c] =
                     IF Has(ParametersOf(last'), c)
                     THEN Assigned(ParametersOf(last'), c)
                     ELSE store.tasks[AsInt(Get(ParametersOf(last'), "task_id"))][c]
            /\ store'.projects = store.projects
            /\ store'.users = store.users
       /\ UpdateTaskNamesNoColumn => (last'.result.success /\ store' = store)]_vars

\* C19: of two persisted tasks, an update_task has set the status of task
\* 1 alone.
C19_Witness ==
    /\ OperationOf(last) = "update_task"
    /\ last.result.success
    /\ DOMAIN store.tasks = {1, 2}
    /\ store.tasks[1].status = "completed"
    /\ store.tasks[2].status = "pending"
    /\ store.tasks[1].priority = store.tasks[2].priority

\* The ids the 'delete project' command of the step lists.
ListedIds == DeleteProjectIds(Strip(Lower(last'.query)))

\* The step is a 'delete project <ids>' command with at least one id.
DeleteListedCommand ==
    /\ CommandOf("delete_projects")
    /\ ListedIds # <<>>

\* C20: a 'delete project <ids>' command with at least one id succeeds
\* whether or not its ids match a project; it removes exactly the listed
\* projects that existed, and deleted_projects is the number of projects
\* removed, an id that matches nothing or is repeated not counted.
C20_DeleteListedProjects ==
    [][DeleteListedCommand =>
          /\ last'.result.success
          /\ last'.sent.success
          /\ DOMAIN store'.projects =
                DOMAIN store.projects \ {ListedIds[k] : k \in 1..Len(ListedIds)}
          /\ \A p \in DOMAIN store'.projects : store'.projects[p] = store.projects[p]
          /\ last'.result.data.tag = "deleted_projects"
          /\ last'.result.data.n =
                Cardinality(DOMAIN store.projects \ DOMAIN store'.projects)]_vars

\* C20: a command that lists project 1 twice and a project that does not
\* exist has removed project 1 and reports one deleted project.
C20_Witness ==
    /\ phase = "pending"
    /\ last.family = "delete_projects"
    /\ last.query = <<"delete", "project", "1", ",", "9", ",", "1">>
    /\ last.result.success
    /\ last.result.data.n = 1
    /\ 1 \notin DOMAIN store.projects

\* The step is a project deletion that succeeds.
ProjectDeletion ==
    /\ CommandOf("delete_projects") \/ CommandOf("delete_all_projects")
    /\ last'.result.success

\* A project deletion deletes no task, gives the tasks of the deleted
\* projects a null project reference and leaves the other tasks alone.
DeletionNullifies ==
    /\ DOMAIN store'.tasks = DOMAIN store.tasks
    /\ \A i \in DOMAIN store.tasks :
          store'.tasks[i] =
             IF store.tasks[i].project_id \in DOMAIN store.projects \ DOMAIN store'.projects
             THEN [store.tasks[i] EXCEPT !.project_id = NullId]
             ELSE store.tasks[i]

\* No task references a project that is absent from the store.
NoDanglingProject(db) ==
    \A i \in DOMAIN db.tasks :
       db.tasks[i].project_id = NullId \/ db.tasks[i].project_id \in DOMAIN db.projects

\* C21: a project deletion deletes no task and nullifies the project
\* reference of every task of a deleted project, and in the state it
\* leads to no task references a project absent from the store.
C21_ProjectDeletionLeavesNoDanglingTask ==
    [][ProjectDeletion => (DeletionNullifies /\ NoDanglingProject(store'))]_vars

\* The four fields a bulk update can assign.
BulkFields == {"project_id", "status", "priority", "assigned_to"}

\* The ids the bulk command of the step selects in the store it finds.
BulkIds == BulkSelection(NewSession(store), Strip(Lower(last'.query)))

\* The dimension the bulk command of the step names.
BulkNamed == BulkDimension(NewSession(store), Strip(Lower(last'.query)))

\* The step assigns field f, to the value the command names, on the
\* selected tasks and changes nothing else of any task.
AssignsOnly(f) ==
    /\ Len(BulkNamed.params) = 1
    /\ BulkNamed.params[1].k = f
    /\ DOMAIN store'.tasks = DOMAIN store.tasks
    /\ \A i \in DOMAIN store.tasks :
          store'.tasks[i] =
             IF \E k \in 1..Len(BulkIds.ids) : BulkIds.ids[k] = i
             THEN [store.tasks[i] EXCEPT ![f] = Assigned(BulkNamed.params, f)]
             ELSE store.tasks[i]

\* The bulk command of the step selects no task, names a status or a
\* priority outside the enumerated values, or names no dimension.
BulkRefusable ==
    \/ BulkIds.exc = "" /\ BulkIds.ids = <<>>
    \/ /\ Contains(Strip(Lower(last'.query)), <<"set", "status", "to">>)
       /\ Join(Words(SplitSecond(Strip(Lower(last'.query)), <<"set", "status", "to">>)))
             \notin StatusValues
    \/ /\ Contains(Strip(Lower(last'.query)), <<"set", "priority", "to">>)
       /\ Join(Words(SplitSecond(Strip(Lower(last'.query)), <<"set", "priority", "to">>)))
             \notin PriorityValues
    \/ BulkNamed = NoDimension

\* C22: a successful bulk update assigns exactly one of project_id,
\* status, priority and assigned_to on the selected tasks and leaves
\* their other fields as they were; a bulk command with an empty
\* selection, an invalid status or priority or no update dimension gets a
\* failed result and changes no task.
C22_BulkUpdateAssignsOneField ==
    [][CommandOf("bulk_update") =>
          /\ last'.result.success => \E f \in BulkFields : AssignsOnly(f)
          /\ BulkRefusable => (~last'.result.success /\ store'.tasks = store.tasks)]_vars

\* C22: a bulk update has completed two tasks whose priorities it left
\* at their default.
C22_Witness ==
    /\ last.family = "bulk_update"
    /\ last.query = <<"set", "all", "tasks", "set", "status", "to", "completed">>
    /\ last.result.success
    /\ DOMAIN store.tasks = {1, 2}
    /\ \A i \in {1, 2} : store.tasks[i].status = "completed"
                         /\ store.tasks[i].priority = "medium"

\* The LLM answered the generation command l with a JSON object whose
\* tasks array is empty.
EmptyBatchReplied(l) ==
    /\ l.family = "generation"
    /\ l.llm.exc = ""
    /\ l.llm.content.fmt = "json"
    /\ "tasks" \in l.llm.content.keys
    /\ l.llm.content.tasks = <<>>

\* C24: a generation whose reply is a JSON object with an empty tasks
\* array gets a failed result and leaves no batch to import, and no
\* import succeeds with zero tasks.
C24_EmptyBatchIsRejected ==
    [][/\ (Command /\ EmptyBatchReplied(last'))
            => (~last'.result.success /\ phase' = phase)
       /\ (CommandOf("import") /\ last'.result.success)
            => last'.result.data.n > 0]_vars

\* The eleven operation names of the executor.
ExecutorOperations ==
    {"search_tasks", "create_task", "update_task", "delete_task", "create_project",
     "search_projects", "delete_project", "update_tasks", "list_tables",
     "create_user", "search_users"}

\* C25: a well-formed fallback reply that names one of the eleven
\* operations is never rejected as an unknown operation.
C25_EveryOperationIsDispatched ==
    OperationOf(last) \in ExecutorOperations
       => last.result.response # "Unexpected error: Unknown operation: " \o OperationOf(last)

\* C26: every command is processed with a session created for it alone,
\* which no command before it used; the session is committed or rolled
\* back and closed before the next command is received, so that at every
\* receive all sessions created so far are closed.
C26_OneSessionPerCommand ==
    [][Command =>
          /\ sessions.closed = sessions.opened
          /\ sessions'.opened = sessions.opened + 1
          /\ last'.session = sessions'.opened
          /\ last'.session > last.session
          /\ last'.ended \in {"commit", "rollback"}
          /\ sessions'.closed = sessions'.opened]_vars

\* C26: three commands have been answered; the session of the last one
\* was rolled back after its commit failed, and all three are closed.
C26_Witness ==
    /\ received = MaxCommands
    /\ last.session = MaxCommands
    /\ last.ended = "rollback"
    /\ sessions = [opened |-> MaxCommands, closed |-> MaxCommands]

\* The last command was a generation that failed, and a batch was pending
\* when it was received: the message before the one it left is the reply
\* of a generation that succeeded.
GenerationFailedOnPending ==
    /\ last.family = "generation"
    /\ ~last.result.success
    /\ phase = "pending"
    /\ Len(conversation_history) >= 2
    /\ conversation_history[Len(conversation_history)].role = "user"
    /\ conversation_history[Len(conversation_history) - 1].role = "assistant"

\* C27: a failed generation leaves the pending batch in place: an import
\* right after it succeeds and persists the batch that was pending before
\* the failed generation.
C27_FailedGenerationKeepsPendingBatch ==
    [][(GenerationFailedOnPending /\ CommandOf("import"))
       => /\ last'.result.success
          /\ Cardinality(NewTasks(store, store')) =
                Len(JsonLoads(conversation_history[Len(conversation_history) - 1].content).tasks)]_vars

\* C28: a bulk update that sets the project to id P succeeds only if
\* project P exists, as one that assigns to user U succeeds only if user
\* U exists: the tasks it updated reference a project and a user of the
\* store.
C28_BulkUpdateChecksReferences ==
    [][(CommandOf("bulk_update") /\ last'.result.success)
       => /\ Len(BulkNamed.params) = 1
          /\ BulkNamed.params[1].k = "project_id"
                => /\ AsInt(BulkNamed.params[1].v) \in DOMAIN store.projects
                   /\ \A k \in 1..Len(BulkIds.ids) :
                         store'.tasks[BulkIds.ids[k]].project_id \in DOMAIN store'.projects
          /\ BulkNamed.params[1].k = "assigned_to"
                => /\ AsInt(BulkNamed.params[1].v) \in DOMAIN store.users
                   /\ \A k \in 1..Len(BulkIds.ids) :
                         store'.tasks[BulkIds.ids[k]].assigned_to \in DOMAIN store'.users]_vars

\* C29: the N of 'Successfully updated N tasks' of a bulk update that
\* succeeded is the number of tasks it updated, whatever the other
\* connections' commands did between its selection and its update.
C29_ReportedCountIsUpdatedCount ==
    \A c \in Connections :
       (handlers[c].kind = "bulk_update" /\ handlers[c].success)
          => handlers[c].n = handlers[c].updated

\* The positions of the replies of successful generations in the history.
Replies(history) == {k \in 1..Len(history) : history[k].role = "assistant"}

\* The batch of the generation that completed last.
LatestBatch(history) == JsonLoads(history[MaxOf(Replies(history))].content).tasks

\* The step is the receipt of an import command on connection c.
ImportReceived(c) ==
    /\ handlers[c].pc = "idle"
    /\ handlers'[c].pc # "idle"
    /\ handlers'[c].kind = "import"

\* The step is the commit of the import of connection c.
ImportPersisted(c) ==
    /\ handlers[c].pc = "import_commit"
    /\ handlers'[c].pc = "commit"

\* C23: the pending batch is one slot for all connections: an import
\* received on any connection after generations succeeded on any
\* connections takes the batch of the generation that completed last, and
\* that batch and no other is what it persists.
C23_ImportTakesLatestBatchOfAnyConnection ==
    [][\A c \in Connections :
          /\ (ImportReceived(c) /\ Replies(conversation_history) # {})
                => /\ handlers'[c].pc = "import_commit"
                   /\ handlers'[c].tasks = LatestBatch(conversation_history)
          /\ ImportPersisted(c)
                => /\ handlers'[c].success
                   /\ handlers'[c].n = Len(handlers[c].tasks)
                   /\ Cardinality(NewTasks(connection, connection')) = Len(handlers[c].tasks)
                   /\ KeepsTasks(connection, connection')
                   /\ store' = connection']_vars

\* C23: a connection that never generated has imported the two tasks of
\* the second generation; the first generation had proposed one task.
C23_Witness ==
    /\ \E c \in Connections :
          /\ ~handlers[c].generated
          /\ handlers[c].kind = "import"
          /\ handlers[c].pc = "idle"
          /\ handlers[c].success
          /\ handlers[c].n = 2
    /\ Len(conversation_history) = 4
    /\ Len(JsonLoads(conversation_history[2].content).tasks) = 1
    /\ Cardinality(DOMAIN store.tasks) = 2

\* Connection c has answered a create_task for project "Alpha" that
\* succeeded.
CreatedInAlpha(c) ==
    /\ handlers[c].kind = "create_task"
    /\ handlers[c].pc = "idle"
    /\ handlers[c].success

\* C30: when the connections have each answered a create_task naming the
\* project "Alpha", which did not exist before, the store has exactly one
\* project of that name and the tasks of all of them reference it.
C30_ConcurrentCreateTaskSharesProject ==
    (\A c \in Connections : CreatedInAlpha(c))
       => /\ Cardinality(ProjectsNamed(store, "Alpha")) = 1
          /\ \A c \in Connections :
                /\ handlers[c].project_id \in ProjectsNamed(store, "Alpha")
                /\ handlers[c].n \in DOMAIN store.tasks
                /\ store.tasks[handlers[c].n].project_id = handlers[c].project_id

====
